---- MODULE Spec2Model ----
(***************************************************************************)
(* Presentation rendering and capture engine of table_designer.            *)
(*                                                                         *)
(* One behaviour is one session of one kind, named by mode:                *)
(*   "audio"   a PresentationAudio instance driven through its public API  *)
(*   "ambient" the same, start() and stop() alone, over a longer time      *)
(*   "export"  one renderVideo call (utils/videoRenderer.ts)               *)
(*   "legacy"  the requestAnimationFrame driven TablePreview               *)
(*             (components/TablePreview.tsx)                               *)
(*   "preview" the setInterval driven TablePreview (unnamed/part_000)      *)
(*   "image"   one renderTableImage call (unnamed/part_003)                *)
(*   "layout"  the layout computation of renderTableImage                  *)
(*   "app"     the handlers of App (App.tsx) around one table              *)
(*   "wrap"    one getLines call                                           *)
(*   "fade"    the opacity computation of one drawFrame call               *)
(*   "editor"  the App component editing the table (App.tsx)               *)
(*                                                                         *)
(* Wall-clock times are in milliseconds, audio-clock times in milliseconds *)
(* of AudioContext.currentTime.                                            *)
(***************************************************************************)
EXTENDS Integers, Sequences, FiniteSets, TLC

\* ------------------------------------------------------------- bounds
MaxRows == 2
MaxCols == 3
MaxGapQuanta == 5
MaxAudioClock == 4
\* The same for the sessions that watch the ambient scheduler.
MaxAmbientClock == 10
MaxNodes == 8
MaxTransitions == 4
MaxPlays == 2
\* Longest text handed to getLines, in characters, and largest maximum width.
MaxTextLen == 5
MaxWidth == 5
\* Most lines of summary above the table of an exported image.
MaxSummaryLines == 44
\* Most columns and rows of a table typed into the editor.
MaxEditorCols == 2
MaxEditorRows == 2
\* Most captures awaited by the application at once.
MaxCaptures == 2
\* Longest step of the opacity envelope, in tenths of a second.
MaxFadeTenths == 12
\* Steps per pixel of the grid the padding quotient is rounded to.
RoundingGrid == 4

\* ------------------------------------------------- program constants
videoWidth == 1080
canvasWidth == 2160
canvasHeight == 2700
margin == 100
titleLineHeight == 120
summaryLineHeight == 50
footerHeight == 120
cellPadding == 30
minRowHeight == 80
floorFontSize == 25
floorRowPadding == 20
maxAttempts == 15
paddingCap == 80
endBuffer == 3000
holdDelay == 2000
previewBuffer == 1000
fadeTime == 300
entranceTime == 500
scheduleAheadTime == 1000
startOffset == 500
scaleLength == 11

\* Gaps between successive frame callbacks, in ms.
FrameGaps == {g * 1000 : g \in 0..MaxGapQuanta}
\* Lateness of a timer callback with respect to its due time, in ms.
TimerLateness == {0, 1000}
\* Gaps with a base of 1.0 s.
NoteGapsShortBase == {1000, 3400}
\* 2.0 + Math.random() * 2.5 seconds, in ms: the least value and one just under
\* the (excluded) supremum 4500.
NoteGaps == {2000, 4400}
VoicePayloads == {"", "valid", "malformed"}
\* Values of the "Duration per Item" slider, in seconds.
Durations == {1, 2}
\* An image reference: none, one that loads, one whose load fails.
AssetRefs == {"", "ok", "broken"}
\* The characters of a text: the space, a narrow glyph and a wide one.
Chars == {" ", "i", "m"}
Texts == UNION {[1..n -> Chars] : n \in 0..MaxTextLen}
Widths == 0..MaxWidth
\* Numbers of lines the summary of an exported image takes (0: no summary).
SummaryLines == {0} \cup (33..MaxSummaryLines)
\* Numbers of words of a table cell.
CellWordCounts == {1, 4, 6}
\* Values of durationPerItem in drawFrame, in ms, from under one fade to two and more.
FadeDurations == {100 * k : k \in 1..MaxFadeTenths}
\* enum Layout
Layouts == {"STACKED", "SPLIT", "DIAGONAL", "MAGAZINE", "LOWER_THIRD"}
\* The three overlay switches of AnimationConfig, in every combination.
OverlayFlags == [showAppName : BOOLEAN, showAiWatermark : BOOLEAN, showProgressBar : BOOLEAN]
\* enum Theme
Themes == {"COSMIC", "NEON", "LUXE", "GLASS"}

VARIABLES
    mode,            \* kind of session
    rows,            \* data.data.length
    numCols,         \* data.columns.length
    durationPerItem, \* config.durationPerItem, seconds
    voicePcm,        \* narration payload handed to the session
    backgroundImage, \* config.backgroundImage
    logoSrc,         \* the logo reference handed to the renderer
    theme,           \* config.theme
    layout,          \* config.layout
    flags,           \* config.showAppName, showAiWatermark, showProgressBar
    audio,           \* the PresentationAudio instance of the session
    lastCall,        \* the engine method that ran last ("resumed": the rest of a
                     \* start() that had awaited ctx.resume())
    clock,           \* renderVideo: timestamp of the last frame callback, ms
    pc,              \* renderVideo: position in the async executor
    promise,         \* renderVideo: state of the returned promise
    recorder,        \* renderVideo: MediaRecorder.state, "none" before construction
    encoderFailure,  \* renderVideo: the encoder failure that happened, "" if none
    startTime,       \* renderVideo: startTime (0 = null)
    lastStepIndex,   \* renderVideo: lastStepIndex
    progress,        \* renderVideo: last value passed to onProgress
    bgImage,         \* renderer: the background image was loaded (else null)
    logoImage,       \* renderer: the logo was loaded (else null)
    painted,         \* renderer: background and logo of the last drawing
    text,            \* getLines: text
    maxWidth,        \* getLines: maxWidth
    lines,           \* getLines: the array returned
    cellTexts,       \* renderTableImage: the text of the cells of each row
    titleLines,      \* renderTableImage: titleLines.length
    summaryLines,    \* renderTableImage: summaryLines.length
    solver,          \* renderTableImage: the locals of the layout computation
    data,            \* App: data, as the number of columns and the length of each row
    isValidJson,     \* App: isValidJson
    consumer,        \* the last component data was handed to
    jsonString,      \* App: jsonString, the text in the editor
    jsonError,       \* App: jsonError
    summary,         \* App: data.summary, "" if there is none
    voicePcmOf,      \* App: voicePcm, as the summary it was generated from
    isGenVoice,      \* App: isGenVoice
    pending,         \* App: the summary or voice request awaited
    isExporting,     \* App: isExporting
    closureIsExporting, \* App: isExporting as captured by the handlers rendered last
    captures,        \* App: renderVideo and renderTableImage calls not yet settled
    fade,            \* drawFrame: the locals of the opacity computation
    elapsed,         \* ms from the start of the playback to its last frame or tick
    shown,           \* what the surface shows: step, rowIdx, colIdx
    isPlaying,       \* App: isPlaying, the prop of TablePreview
    currentIndex,    \* TablePreview.tsx: currentIndex
    closureIndex,    \* TablePreview.tsx: currentIndex as captured by the effect
    raf,             \* TablePreview.tsx: a frame callback is requested
    currentStep,     \* part_000: currentStep
    interval,        \* part_000: ms until the next interval tick, -1 if cleared
    audioRef,        \* part_000: audioRef.current is an instance
    timeouts,        \* pending end-of-sequence timeouts: ms until each is due
    obs              \* observations of the session (history, not program state)

cfgVars == <<mode, rows, numCols, durationPerItem, voicePcm, backgroundImage,
             logoSrc, theme, layout, flags>>
wrapVars == <<text, maxWidth, lines>>
layoutVars == <<cellTexts, titleLines, summaryLines, solver>>
editorVars == <<data, isValidJson, consumer>>
voiceVars == <<voicePcmOf, isGenVoice, pending>>
captureVars == <<isExporting, closureIsExporting, captures>>
appVars == <<jsonString, jsonError, summary, voiceVars, captureVars>>
fadeVars == <<fade>>
assetVars == <<bgImage, logoImage, painted>>
exportVars == <<clock, pc, promise, recorder, encoderFailure, startTime,
                lastStepIndex, progress, assetVars>>
previewVars == <<isPlaying, currentIndex, closureIndex, raf, currentStep,
                 interval, audioRef, timeouts>>
vars == <<cfgVars, wrapVars, layoutVars, editorVars, appVars, fadeVars, audio, lastCall, exportVars, elapsed, shown, previewVars, obs>>

Max(a, b) == IF a >= b THEN a ELSE b
Min(a, b) == IF a <= b THEN a ELSE b

\* ------------------------------------------------ JavaScript numbers
\* A non-negative quotient n/d, or NaN, or Infinity.
Num(n, d) == [kind |-> "num", n |-> n, d |-> d]
NaN == [kind |-> "NaN", n |-> 0, d |-> 1]
Infinity == [kind |-> "Infinity", n |-> 1, d |-> 0]
NoValue == [kind |-> "none", n |-> 0, d |-> 1]

JsDiv(a, b) ==
    IF b = 0 THEN (IF a = 0 THEN NaN ELSE Infinity) ELSE Num(a, b)

\* Math.min(x, 1)
MathMin1(x) ==
    CASE x.kind = "NaN" -> NaN
      [] x.kind = "Infinity" -> Num(1, 1)
      [] OTHER -> IF x.n >= x.d THEN Num(1, 1) ELSE x

NumLeq(x, y) == x.kind = "num" /\ y.kind = "num" /\ x.n * y.d <= y.n * x.d
InUnitInterval(x) == x.kind = "num" /\ 0 <= x.n /\ x.n <= x.d
IsOne(x) == x.kind = "num" /\ x.n = x.d

\* ------------------------------------------------------ step sequence
NumAttributes(cols) == Max(1, cols - 1)
TotalSteps(r, cols) == r * NumAttributes(cols)
StepDuration(d) == d * 1000
TotalDuration(r, cols, d) == TotalSteps(r, cols) * StepDuration(d)

numAttributes == NumAttributes(numCols)
totalSteps == TotalSteps(rows, numCols)
stepDuration == StepDuration(durationPerItem)
totalDuration == TotalDuration(rows, numCols, durationPerItem)
\* A run time with no end buffer, to tell a hold from none.
RunTimeWithoutHold == totalDuration
totalRunTime == totalDuration + endBuffer

\* Math.floor(a / b) for b > 0 (a may be negative).
FloorDiv(a, b) == a \div b
\* JavaScript a % b for b > 0: the sign follows the dividend.
JsRem(a, b) == IF a >= 0 THEN a % b ELSE 0 - ((0 - a) % b)

\* ------------------------------------------------- PresentationAudio
\* The instance after its constructor; ctxState is the state the browser gave
\* the new AudioContext ("suspended" under the autoplay policy).
\*   pending        the armed lookahead timeouts (handles)
\*   resuming       the start() calls awaiting ctx.resume(): "live" if resume()
\*                  was called on a context not being closed, "doomed" otherwise
\*   closeRequested ctx.close() was called and has not completed
\*   stopped        stop() was called on the instance
\*   reused         start(), playSpeech() or triggerTransition() was invoked on the
\*                  instance after stop()
\*   voices         the buffer sources connected to the voice bus and not stopped
\*   noteTimes      the start times of the ambient notes whose nodes are in nodes
NewAudio(ctxState) ==
    [isPlaying |-> FALSE, nextNoteTime |-> 0, timerID |-> 0, nodes |-> 0,
     voiceSource |-> FALSE, ctxState |-> ctxState, currentTime |-> 0,
     pending |-> {}, resuming |-> {}, closeRequested |-> FALSE,
     stopped |-> FALSE, reused |-> FALSE, voices |-> 0, noteTimes |-> <<>>]

\* window.setTimeout's handle: a positive integer not naming an armed timer.
FreshTimer(armed) == CHOOSE n \in 1..(Cardinality(armed) + 1) : n \notin armed

\* playPianoTone: three nodes pushed.
PlayPianoTone(a) == [a EXCEPT !.nodes = @ + 3]

\* playRandomPianoNote: idx is the scale index drawn, layer is Math.random() < 0.3.
PlayRandomPianoNote(a, idx, layer) ==
    LET b == [a EXCEPT !.noteTimes = Append(@, a.nextNoteTime)]
    IN IF layer /\ idx + 2 < scaleLength
       THEN PlayPianoTone(PlayPianoTone(b))
       ELSE PlayPianoTone(b)

\* The while loop of scheduler(): every engine state it can end in.
RECURSIVE ScheduleNotes(_)
ScheduleNotes(a) ==
    IF a.nextNoteTime < a.currentTime + scheduleAheadTime
    THEN UNION { ScheduleNotes([PlayRandomPianoNote(a, idx, layer)
                                  EXCEPT !.nextNoteTime = @ + gap]) :
                   <<gap, idx, layer>> \in NoteGaps \X (0..(scaleLength - 1)) \X BOOLEAN }
    ELSE {a}

\* window.setTimeout(scheduler, lookahead * 1000)
ArmTimer(a) ==
    LET id == FreshTimer(a.pending)
    IN [a EXCEPT !.timerID = id, !.pending = @ \cup {id}]

\* One run of scheduler().
Scheduler(a) ==
    IF ~a.isPlaying THEN {a} ELSE { ArmTimer(b) : b \in ScheduleNotes(a) }

\* scheduleAmbientPiano(): defines scheduler and runs it once.
ScheduleAmbientPiano(a) == Scheduler(a)

\* A start() without the isPlaying guard.
StartUnguarded(a) ==
    ScheduleAmbientPiano([a EXCEPT !.isPlaying = TRUE,
                                   !.nextNoteTime = a.currentTime + startOffset])

\* start(), after the optional await.
StartBody(a) ==
    IF ~a.isPlaying
    THEN ScheduleAmbientPiano([a EXCEPT !.isPlaying = TRUE,
                                        !.nextNoteTime = a.currentTime + startOffset])
    ELSE {a}

\* start(), up to its first suspension point or its end.
StartCall(a) ==
    LET b == [a EXCEPT !.reused = @ \/ a.stopped]
    IN IF b.ctxState = "suspended"
       THEN {[b EXCEPT !.resuming = @ \cup {IF b.closeRequested THEN "doomed" ELSE "live"}]}
       ELSE StartBody(b)

\* A stop() that only halts the scheduler loop.
StopKeepingNodes(a) == [a EXCEPT !.isPlaying = FALSE, !.stopped = TRUE]

\* stop()
StopAudio(a) ==
    [a EXCEPT !.isPlaying = FALSE,
              !.pending = IF a.timerID # 0 THEN @ \ {a.timerID} ELSE @,
              !.timerID = 0,
              !.nodes = 0,
              !.noteTimes = <<>>,
              !.voiceSource = FALSE,
              !.voices = IF a.voiceSource THEN @ - 1 ELSE @,
              !.closeRequested = @ \/ a.ctxState # "closed",
              !.stopped = TRUE]

\* A playSpeech() that starts the new source without stopping the previous one.
PlaySpeechOver(a, payload) ==
    IF payload = "valid"
    THEN [a EXCEPT !.voiceSource = TRUE, !.voices = @ + 1]
    ELSE a

\* A playSpeech() that lets a decoding failure take the engine down.
PlaySpeechFatal(a, payload) ==
    CASE payload = "" -> a
      [] payload = "malformed" ->
           [a EXCEPT !.isPlaying = FALSE, !.nodes = 0, !.noteTimes = <<>>, !.voiceSource = FALSE,
                     !.voices = IF a.voiceSource THEN @ - 1 ELSE @]
      [] OTHER -> [a EXCEPT !.voiceSource = TRUE,
                            !.voices = (IF a.voiceSource THEN @ - 1 ELSE @) + 1]

\* playSpeech(base64Pcm): nothing for an empty payload; otherwise the previous
\* source is stopped and dropped, then the payload is decoded (atob and the
\* Int16Array view throw on a malformed one, which the catch swallows) and the new
\* source is connected and started.
PlaySpeech(a, payload) ==
    LET b == [a EXCEPT !.reused = @ \/ a.stopped,
                       !.voiceSource = FALSE,
                       !.voices = IF a.voiceSource THEN @ - 1 ELSE @]
    IN CASE payload = "" -> a
         [] payload = "malformed" -> b
         [] OTHER -> [b EXCEPT !.voiceSource = TRUE, !.voices = @ + 1]

\* triggerTransition(): an oscillator and a gain pushed.
TriggerTransition(a) == [a EXCEPT !.nodes = @ + 2, !.reused = @ \/ a.stopped]

\* ---- engine events, in every kind of session
\* A lookahead timeout fires.
SchedulerTick ==
    /\ \E id \in audio.pending :
         \E b \in Scheduler([audio EXCEPT !.pending = @ \ {id}]) :
            /\ b.nodes <= MaxNodes
            /\ audio' = b
    /\ UNCHANGED <<cfgVars, wrapVars, layoutVars, editorVars, appVars, fadeVars, lastCall, exportVars, elapsed, shown, previewVars, obs>>

\* ctx.resume() settles and the start() calls awaiting it continue: resolved on a
\* live context, rejected when resume() was called on a context being closed,
\* either way when the context was closed while the call was pending.
ResumeSettles ==
    /\ \E kind \in audio.resuming, ok \in BOOLEAN :
         /\ kind = "doomed" => ~ok
         /\ (kind = "live" /\ ~audio.closeRequested /\ audio.ctxState # "closed") => ok
         /\ LET a == [audio EXCEPT !.resuming = @ \ {kind},
                                   !.ctxState = IF ok /\ @ = "suspended" /\ ~audio.closeRequested
                                                THEN "running" ELSE @]
            IN \E b \in (IF ok THEN StartBody(a) ELSE {a}) : audio' = b
         /\ lastCall' = IF ok THEN "resumed" ELSE lastCall
    /\ UNCHANGED <<cfgVars, wrapVars, layoutVars, editorVars, appVars, fadeVars, exportVars, elapsed, shown, previewVars, obs>>

\* ctx.close() completes.
ContextCloses ==
    /\ audio.closeRequested
    /\ audio' = [audio EXCEPT !.closeRequested = FALSE, !.ctxState = "closed"]
    /\ UNCHANGED <<cfgVars, wrapVars, layoutVars, editorVars, appVars, fadeVars, lastCall, exportVars, elapsed, shown, previewVars, obs>>

\* ---- "audio" sessions: the public API called in any order; "ambient" sessions:
\* start() and stop() alone, over a longer time
ApiSession == mode \in {"audio", "ambient"}
ClockLimit == (IF mode = "ambient" THEN MaxAmbientClock ELSE MaxAudioClock) * 500

\* The audio clock advances while the context runs.
AdvanceAudioClock ==
    /\ ApiSession
    /\ audio.ctxState = "running" /\ ~audio.closeRequested
    /\ audio.currentTime < ClockLimit
    /\ audio' = [audio EXCEPT !.currentTime = @ + 500]
    /\ UNCHANGED <<cfgVars, wrapVars, layoutVars, editorVars, appVars, fadeVars, lastCall, exportVars, elapsed, shown, previewVars, obs>>

CallStart ==
    /\ ApiSession
    /\ \E b \in StartCall(audio) : audio' = b
    /\ lastCall' = IF audio.isPlaying THEN "restart" ELSE "start"
    /\ UNCHANGED <<cfgVars, wrapVars, layoutVars, editorVars, appVars, fadeVars, exportVars, elapsed, shown, previewVars, obs>>

CallStop ==
    /\ ApiSession
    /\ audio' = StopAudio(audio)
    /\ lastCall' = IF lastCall \in {"stop", "stop again"} THEN "stop again" ELSE "stop"
    /\ UNCHANGED <<cfgVars, wrapVars, layoutVars, editorVars, appVars, fadeVars, exportVars, elapsed, shown, previewVars, obs>>

CallPlaySpeech ==
    /\ mode = "audio"
    /\ \E payload \in VoicePayloads :
         /\ audio' = PlaySpeech(audio, payload)
         /\ lastCall' = IF audio.voiceSource /\ payload # ""
                        THEN "replaceSpeech" ELSE "playSpeech"
    /\ UNCHANGED <<cfgVars, wrapVars, layoutVars, editorVars, appVars, fadeVars, exportVars, elapsed, shown, previewVars, obs>>

CallTriggerTransition ==
    /\ mode = "audio"
    /\ audio.nodes + 2 <= MaxNodes
    /\ audio' = TriggerTransition(audio)
    /\ lastCall' = "triggerTransition"
    /\ UNCHANGED <<cfgVars, wrapVars, layoutVars, editorVars, appVars, fadeVars, exportVars, elapsed, shown, previewVars, obs>>

\* ------------------------------------------------------- observations
NoObs ==
    [transitions |-> 0,            \* triggerTransition calls made by the timeline
     transitionAtStart |-> FALSE,  \* one was made at elapsed = 0
     transitionInHold |-> FALSE,   \* one was made at elapsed >= totalDuration
     idleTransition |-> FALSE,     \* one was made though the shown step did not change
     progressInRange |-> TRUE,     \* every reported progress was min(elapsed/total, 1) in [0, 1]
     progressMonotone |-> TRUE,    \* the reported progress never decreased
     sawOne |-> FALSE,             \* a frame at elapsed >= totalDuration reported 1
     stepMonotone |-> TRUE,        \* the shown step never decreased
     recorderStops |-> 0,          \* recorder.stop() calls
     resolves |-> 0,               \* resolve(blob) calls
     completions |-> 0,            \* onAnimationComplete calls of this playback
     completedAfterHold |-> FALSE, \* completion was signalled to a running playback no
                                   \* sooner than the end of the sequence plus the hold
     plays |-> 0,                  \* playbacks started
     clean |-> TRUE]               \* the playback began with no timeout of an earlier
                                   \* one pending, and the user has not stopped it

NothingShown == [step |-> 0, rowIdx |-> 0, colIdx |-> 0, at |-> -1]

\* ---------------------------------------------------------- renderVideo
\* Math.floor(elapsed / durationPerItem)
StepAt(e, dur) == FloorDiv(e, dur)

\* A step index left unclamped.
NoClamp(step, total) == step

\* if (currentStepIndex >= totalSteps) currentStepIndex = totalSteps - 1
ClampStep(step, total) == IF step >= total THEN total - 1 ELSE step

\* The condition under which drawFrame calls audioSynth.triggerTransition().
CrossesBoundary(step, last, total) == step > last /\ step < total /\ last # -1

\* A cell mapping that does not skip the subject column.
UnshiftedCell(step, cols) ==
    [rowIdx |-> FloorDiv(step, NumAttributes(cols)),
     colIdx |-> JsRem(step, NumAttributes(cols))]

\* rowIdx, attrIdx and colIdx of drawFrame.
ExportCell(step, cols) ==
    LET attrIdx == JsRem(step, NumAttributes(cols))
    IN [rowIdx |-> FloorDiv(step, NumAttributes(cols)),
        colIdx |-> IF cols > 1 THEN attrIdx + 1 ELSE 0]

\* Math.min(elapsed / totalDuration, 1)
ExportProgress(e, total) == MathMin1(JsDiv(e, total))

\* const stepTime = elapsed % durationPerItem
StepTime(e, dur) == JsRem(e, dur)

\* An envelope that fades in and never out.
OpacityWithoutFadeOut(t, dur) ==
    IF t < fadeTime THEN JsDiv(t, fadeTime) ELSE Num(1, 1)

\* opacity of drawFrame: 1, overwritten by the fade-in, overwritten by the fade-out.
Opacity(t, dur) ==
    IF t > dur - fadeTime THEN JsDiv(dur - t, fadeTime)
    ELSE IF t < fadeTime THEN JsDiv(t, fadeTime)
    ELSE Num(1, 1)

\* isRowStart of drawFrame.
IsRowStart(step, cols) == JsRem(step, NumAttributes(cols)) = 0

\* The subject is drawn inside its entrance motion (shifted and partly
\* transparent): the stacked branch has one, the split branch has none.
SubjectEntrance(l, step, cols, t) ==
    l # "SPLIT" /\ IsRowStart(step, cols) /\ t < entranceTime

\* The attribute header and value are drawn: both branches of drawFrame guard
\* them with numCols > 1.
ExportAttributeDrawn(l, cols) == cols > 1

\* The opacity computation of one drawFrame call.
OpacityCall ==
    /\ mode = "fade" /\ fade.opacity = NoValue
    /\ fade' = [fade EXCEPT !.opacity = Opacity(fade.stepTime, fade.durationPerItem)]
    /\ UNCHANGED <<cfgVars, wrapVars, layoutVars, editorVars, appVars, audio, lastCall, exportVars,
                   elapsed, shown, previewVars, obs>>

\* The fill of the progress bar as a fraction of canvas.width:
\* Math.min((elapsed / totalDuration) * canvas.width, canvas.width).
ExportBarFill(e, total) == MathMin1(JsDiv(e, total))

\* loadImage(src): resolves with the image or rejects.
LoadImage(src) == IF src = "ok" THEN "resolved" ELSE "rejected"

\* let image = null; if (src) { try { image = await loadImage(src) } catch {} }
LoadOrNull(src) == src # "" /\ LoadImage(src) = "resolved"

\* A drawFrame without the procedural branch.
VideoBackgroundNoFallback(img, th) == IF img THEN "image" ELSE "flat"

\* The background drawFrame lays over the flat fill: the image under a dark
\* overlay, else the gradient of COSMIC or the grid of NEON, else nothing.
VideoBackground(img, th) ==
    CASE img -> "image"
      [] ~img /\ th = "COSMIC" -> "gradient"
      [] ~img /\ th = "NEON" -> "grid"
      [] OTHER -> "flat"

\* The overlays drawn: the app-name label, the AI label, the progress bar.
NoOverlays == [appName |-> FALSE, aiWatermark |-> FALSE, progressBar |-> FALSE]

\* Where the subject and the attribute header are anchored: textAlign of the
\* subject, x in pixels of the 1080 wide canvas, y in hundredths of its height.
NoAnchors == [align |-> "none", subject |-> <<0, 0>>, attribute |-> <<0, 0>>]

\* The layout logic of drawFrame: a branch for SPLIT, the stacked one for the rest.
ExportAnchors(l) ==
    IF l = "SPLIT"
    THEN [align |-> "right", subject |-> <<videoWidth \div 2 - 50, 52>>,
          attribute |-> <<videoWidth \div 2 + 50, 45>>]
    ELSE [align |-> "center", subject |-> <<videoWidth \div 2, 44>>,
          attribute |-> <<videoWidth \div 2, 68>>]

\* The overlays of drawFrame: the progress bar under its switch; no label is drawn.
ExportOverlays(f) ==
    [appName |-> FALSE, aiWatermark |-> FALSE, progressBar |-> f.showProgressBar]

NothingPainted ==
    [background |-> "none", logo |-> "none", anchors |-> NoAnchors, overlays |-> NoOverlays]

\* The two asset loads of renderVideo, before the engine is constructed.
ExportLoadAssets ==
    /\ mode = "export" /\ pc = "load"
    /\ bgImage' = LoadOrNull(backgroundImage)
    /\ logoImage' = LoadOrNull(logoSrc)
    /\ pc' = "start"
    /\ UNCHANGED <<cfgVars, wrapVars, layoutVars, editorVars, appVars, fadeVars, audio, lastCall, clock, promise, recorder, encoderFailure,
                   startTime, lastStepIndex, progress, painted, elapsed, shown,
                   previewVars, obs>>

\* await audioSynth.start()
ExportStartAudio ==
    /\ mode = "export" /\ pc = "start"
    /\ \E b \in StartCall(audio) : audio' = b
    /\ lastCall' = "start"
    /\ pc' = "awaitStart"
    /\ UNCHANGED <<cfgVars, wrapVars, layoutVars, editorVars, appVars, fadeVars, clock, promise, recorder, encoderFailure, startTime,
                   lastStepIndex, progress, assetVars, elapsed, shown, previewVars, obs>>

\* From the resolution of start() to the first requestAnimationFrame: playSpeech,
\* the streams, the MediaRecorder and its handlers, recorder.start(). The
\* constructor or start() may throw inside the async executor, which nothing
\* catches: the promise is then never settled.
ExportSetupRecorder ==
    /\ mode = "export" /\ pc = "awaitStart" /\ audio.resuming = {}
    /\ audio' = PlaySpeech(audio, voicePcm)
    /\ lastCall' = IF voicePcm = "" THEN lastCall ELSE "playSpeech"
    /\ \E outcome \in {"ok", "construct", "start"} :
         /\ recorder' = CASE outcome = "ok" -> "recording"
                          [] outcome = "construct" -> "none"
                          [] OTHER -> "inactive"
         /\ encoderFailure' = IF outcome = "ok" THEN "" ELSE outcome
         /\ pc' = IF outcome = "ok" THEN "frames" ELSE "uncaught"
    /\ startTime' = 0
    /\ lastStepIndex' = -1
    /\ UNCHANGED <<cfgVars, wrapVars, layoutVars, editorVars, appVars, fadeVars, clock, promise, progress, assetVars, elapsed, shown,
                   previewVars, obs>>

\* An onstop handler that leaves the engine alone.
OnStopKeepingAudio(a) == a

\* recorder.onstop: audioSynth.stop(), resolve(blob).
OnStop(a) == StopAudio(a)

\* The encoder fails while recording: the recorder fires error, for which there is
\* no handler, becomes inactive and fires stop.
RecorderError ==
    /\ mode = "export" /\ pc = "frames" /\ recorder = "recording"
    /\ recorder' = "inactive"
    /\ encoderFailure' = "error"
    /\ audio' = OnStop(audio)
    /\ lastCall' = "stop"
    /\ promise' = IF promise = "pending" THEN "resolved" ELSE promise
    /\ obs' = [obs EXCEPT !.resolves = @ + 1]
    /\ UNCHANGED <<cfgVars, wrapVars, layoutVars, editorVars, appVars, fadeVars, clock, pc, startTime, lastStepIndex, progress, assetVars,
                   elapsed, shown, previewVars>>

\* drawFrame(timestamp), the frame callback. The first callback comes 1000 ms
\* after the call, every later one after a gap drawn from FrameGaps.
DrawFrame ==
    /\ mode = "export" /\ pc = "frames"
    /\ \E gap \in (IF startTime = 0 THEN {1000} ELSE FrameGaps) :
        LET timestamp == clock + gap
            start == IF startTime = 0 THEN timestamp ELSE startTime
            e == timestamp - start
            step == StepAt(e, stepDuration)
            fire == CrossesBoundary(step, lastStepIndex, totalSteps)
            p == ExportProgress(e, totalDuration)
            cur == ClampStep(step, totalSteps)
            cell == ExportCell(cur, numCols)
        IN /\ clock' = timestamp
           /\ startTime' = start
           /\ elapsed' = e
           /\ IF e > totalRunTime
              THEN \* recorder.stop(); return
                   /\ recorder' = "inactive"
                   /\ pc' = IF recorder = "recording" THEN "stopping" ELSE "uncaught"
                   /\ obs' = [obs EXCEPT !.recorderStops = @ + 1]
                   /\ UNCHANGED <<audio, lastCall, lastStepIndex, progress, shown,
                                  painted>>
              ELSE /\ progress' = p
                   /\ painted' = [background |-> VideoBackground(bgImage, theme),
                                  logo |-> IF logoImage THEN "image" ELSE "none",
                                  anchors |-> ExportAnchors(layout),
                                  overlays |-> ExportOverlays(flags)]
                   /\ audio' = IF fire THEN TriggerTransition(audio) ELSE audio
                   /\ lastCall' = IF fire THEN "triggerTransition" ELSE lastCall
                   /\ lastStepIndex' = step
                   /\ shown' = [step |-> cur, rowIdx |-> cell.rowIdx,
                                colIdx |-> cell.colIdx, at |-> e]
                   /\ obs' = [obs EXCEPT
                        !.transitions = IF fire THEN @ + 1 ELSE @,
                        !.transitionAtStart = @ \/ (fire /\ e = 0),
                        !.transitionInHold = @ \/ (fire /\ e >= totalDuration),
                        !.idleTransition = @ \/ (fire /\ shown.at >= 0 /\ cur = shown.step),
                        !.progressInRange = @ /\ InUnitInterval(p)
                            /\ IF e >= totalDuration THEN IsOne(p)
                               ELSE p.n * totalDuration = e * p.d,
                        !.progressMonotone = @ /\ (progress.kind = "none" \/ NumLeq(progress, p)),
                        !.sawOne = @ \/ (e >= totalDuration /\ IsOne(p)),
                        !.stepMonotone = @ /\ (shown.at < 0 \/ cur >= shown.step)]
                   /\ UNCHANGED <<pc, recorder>>
    /\ UNCHANGED <<cfgVars, wrapVars, layoutVars, editorVars, appVars, fadeVars, promise, encoderFailure, bgImage, logoImage, previewVars>>

\* The recorder's stop event after recorder.stop().
RecorderOnStop ==
    /\ mode = "export" /\ pc = "stopping"
    /\ audio' = OnStop(audio)
    /\ lastCall' = "stop"
    /\ promise' = IF promise = "pending" THEN "resolved" ELSE promise
    /\ pc' = "done"
    /\ obs' = [obs EXCEPT !.resolves = @ + 1]
    /\ UNCHANGED <<cfgVars, wrapVars, layoutVars, editorVars, appVars, fadeVars, clock, recorder, encoderFailure, startTime, lastStepIndex,
                   progress, assetVars, elapsed, shown, previewVars>>

\* ------------------------------------------------------- timer helpers
\* The pending timeouts after dt ms have passed.
Age(ts, dt) == [i \in DOMAIN ts |-> Max(ts[i] - dt, 0)]
RemoveAt(ts, i) == [j \in 1..(Len(ts) - 1) |-> IF j < i THEN ts[j] ELSE ts[j + 1]]

\* What a playback's observations start from; stale tells whether a timeout of
\* an earlier playback is still pending.
NewPlayback(o, stale) ==
    [NoObs EXCEPT !.plays = o.plays + 1, !.clean = ~stale]

\* ------------------------------- TablePreview (components/TablePreview.tsx)
\* Math.floor(elapsed / stepDuration) of nextStep.
LegacyStepAt(e, dur) == FloorDiv(e, dur)

\* currentRowIdx, currentAttrIdx and currentColIdx of the render.
LegacyCell(index, cols) ==
    LET attrIdx == JsRem(index, NumAttributes(cols))
    IN [rowIdx |-> FloorDiv(index, NumAttributes(cols)),
        colIdx |-> IF cols > 1 THEN attrIdx + 1 ELSE 0]

\* key of the motion.div around the layouts: a render with a new key remounts
\* it and replays its entrance, subject block included.
LegacyKey(index, cols) ==
    <<FloorDiv(index, NumAttributes(cols)), JsRem(index, NumAttributes(cols))>>

\* The render outputs currentHeader and currentValue: the stacked layout guards
\* them with numCols > 1, the other four do not.
LegacyAttributeDrawn(l, cols) == IF l = "STACKED" THEN cols > 1 ELSE TRUE

\* The width the progress bar is animated to, as a fraction of the surface:
\* (currentIndex + 1) / totalSteps.
LegacyBarFill(index, total) == JsDiv(index + 1, total)

\* The overlays of the render: each under its switch.
LegacyOverlays(f) ==
    [appName |-> f.showAppName, aiWatermark |-> f.showAiWatermark,
     progressBar |-> f.showProgressBar]

LegacyShown(index, at) ==
    [step |-> index, rowIdx |-> LegacyCell(index, numCols).rowIdx,
     colIdx |-> LegacyCell(index, numCols).colIdx, at |-> at]

\* The component as mounted with isPlaying = false: useMemo constructs the engine
\* and the effect's else branch stops it.
InitLegacy ==
    /\ mode = "legacy"
    /\ \E s \in {"running", "suspended"} : audio = StopAudio(NewAudio(s))
    /\ lastCall = "stop"

\* The play button while stopped: setIsPlaying(true); the previous effect's cleanup
\* (audioSynth.stop()) and the effect's isPlaying branch run.
LegacyPlay ==
    /\ mode = "legacy" /\ ~isPlaying /\ obs.plays < MaxPlays
    /\ isPlaying' = TRUE
    /\ \E b \in (IF currentIndex = 0 THEN StartCall(StopAudio(audio)) ELSE {StopAudio(audio)}) :
         audio' = IF currentIndex = 0 THEN PlaySpeech(b, voicePcm) ELSE b
    /\ lastCall' = IF currentIndex = 0 THEN "start" ELSE "stop"
    /\ closureIndex' = currentIndex
    /\ elapsed' = 0
    /\ raf' = TRUE
    /\ shown' = LegacyShown(currentIndex, 0)
    /\ obs' = NewPlayback(obs, timeouts # <<>>)
    /\ UNCHANGED <<cfgVars, wrapVars, layoutVars, editorVars, appVars, fadeVars, exportVars, currentIndex, currentStep, interval, audioRef, timeouts>>

\* nextStep, the frame callback.
LegacyFrame ==
    /\ mode = "legacy" /\ raf
    /\ \E gap \in FrameGaps :
        LET e == elapsed + gap
            nextIdx == LegacyStepAt(e, stepDuration)
            fire == nextIdx > closureIndex /\ nextIdx < totalSteps
            atEnd == nextIdx >= totalSteps
            index == IF atEnd THEN totalSteps - 1 ELSE IF fire THEN nextIdx ELSE currentIndex
        IN /\ fire => obs.transitions < MaxTransitions
           /\ elapsed' = e
           /\ currentIndex' = index
           /\ shown' = LegacyShown(index, e)
           /\ audio' = IF fire THEN TriggerTransition(audio) ELSE audio
           /\ lastCall' = IF fire THEN "triggerTransition" ELSE lastCall
           /\ timeouts' = IF atEnd THEN Append(Age(timeouts, gap), holdDelay)
                          ELSE Age(timeouts, gap)
           /\ raf' = ~atEnd
           /\ obs' = [obs EXCEPT
                !.transitions = IF fire THEN @ + 1 ELSE @,
                !.transitionAtStart = @ \/ (fire /\ e = 0),
                !.transitionInHold = @ \/ (fire /\ e >= totalDuration),
                !.idleTransition = @ \/ (fire /\ index = currentIndex),
                !.stepMonotone = @ /\ index >= currentIndex]
    /\ UNCHANGED <<cfgVars, wrapVars, layoutVars, editorVars, appVars, fadeVars, exportVars, isPlaying, closureIndex, currentStep, interval,
                   audioRef>>

\* What follows setIsPlaying(false): the effect's cleanup (cancelAnimationFrame,
\* audioSynth.stop()) and its else branch (audioSynth.stop(), setCurrentIndex(0)).
LegacyStopped ==
    /\ isPlaying' = FALSE
    /\ raf' = FALSE
    /\ audio' = StopAudio(audio)
    /\ lastCall' = "stop"
    /\ currentIndex' = 0
    /\ shown' = LegacyShown(0, 0)

\* The end-of-sequence timeout: onAnimationComplete(), audioSynth.stop(),
\* setCurrentIndex(0).
LegacyEndTimeout ==
    /\ mode = "legacy"
    /\ \E i \in DOMAIN timeouts, late \in TimerLateness :
        LET dt == timeouts[i] + late
        IN /\ elapsed' = 0
           /\ timeouts' = Age(RemoveAt(timeouts, i), dt)
           /\ obs' = [obs EXCEPT
                !.completions = @ + 1,
                !.completedAfterHold = IF isPlaying
                                       THEN elapsed + dt >= totalDuration + holdDelay
                                       ELSE @]
    /\ LegacyStopped
    /\ UNCHANGED <<cfgVars, wrapVars, layoutVars, editorVars, appVars, fadeVars, exportVars, closureIndex, currentStep, interval, audioRef>>

\* The play button while playing: setIsPlaying(false).
LegacyUserStop ==
    /\ mode = "legacy" /\ isPlaying
    /\ LegacyStopped
    /\ elapsed' = 0
    /\ obs' = [NoObs EXCEPT !.plays = obs.plays, !.clean = FALSE]
    /\ UNCHANGED <<cfgVars, wrapVars, layoutVars, editorVars, appVars, fadeVars, exportVars, closureIndex, currentStep, interval,
                   audioRef, timeouts>>

\* ----------------------------------------- TablePreview (unnamed/part_000)
\* activeInfo: rowIdx and colIdx of the step shown, nothing for an empty table.
ActiveInfo(step, r, cols) ==
    LET safeStep == Min(step, TotalSteps(r, cols) - 1)
        attrIdx == JsRem(safeStep, NumAttributes(cols))
    IN IF r = 0 THEN NothingShown
       ELSE [step |-> safeStep,
             rowIdx |-> FloorDiv(safeStep, NumAttributes(cols)),
             colIdx |-> IF cols > 1 THEN attrIdx + 1 ELSE 0,
             at |-> 0]

\* renderAttributeBlock, used by all five layouts, outputs header and value.
PreviewAttributeDrawn(l, cols) == cols > 1

\* The delay of the completion timeout armed by the tick that ends the last
\* step: config.durationPerItem * 1000 + 1000.
PreviewEndDelay(dur) == dur + previewBuffer

\* The component as mounted with isPlaying = false: no engine exists yet.
InitPreview ==
    /\ mode = "preview"
    /\ audio = NewAudio("suspended")
    /\ lastCall = "none"

\* The transition effect: triggerTransition() if playing beyond step 0.
TransitionEffect(a, playing, step, hasAudio) ==
    IF playing /\ step > 0 /\ hasAudio THEN TriggerTransition(a) ELSE a

\* The play button while stopped: setIsPlaying(true), then the three effects. The
\* audio effect constructs and starts an engine, the timer effect resets the step
\* and starts the interval, the transition effect sees the step of this render.
PreviewPlay ==
    /\ mode = "preview" /\ ~isPlaying /\ obs.plays < MaxPlays
    /\ isPlaying' = TRUE
    /\ \E s \in {"running", "suspended"} :
         \E b \in (IF audioRef THEN {audio} ELSE StartCall(NewAudio(s))) :
            audio' = TransitionEffect(IF audioRef THEN b ELSE PlaySpeech(b, voicePcm),
                                      TRUE, currentStep, TRUE)
    /\ audioRef' = TRUE
    /\ lastCall' = "start"
    /\ currentStep' = 0
    /\ interval' = stepDuration
    /\ elapsed' = 0
    /\ shown' = ActiveInfo(0, rows, numCols)
    /\ obs' = [NewPlayback(obs, timeouts # <<>>) EXCEPT
                 !.transitions = IF currentStep > 0 THEN 1 ELSE 0]
    /\ UNCHANGED <<cfgVars, wrapVars, layoutVars, editorVars, appVars, fadeVars, exportVars, currentIndex, closureIndex, raf, timeouts>>

\* An interval tick: the setCurrentStep updater, then the transition effect if
\* the step changed.
PreviewTick ==
    /\ mode = "preview" /\ interval >= 0
    /\ \E late \in TimerLateness :
        LET dt == interval + late
            next == currentStep + 1
            atEnd == next >= totalSteps
            fire == ~atEnd /\ isPlaying /\ next > 0 /\ audioRef
        IN /\ elapsed' = elapsed + dt
           /\ currentStep' = IF atEnd THEN currentStep ELSE next
           /\ interval' = IF atEnd THEN -1 ELSE stepDuration
           /\ timeouts' = IF atEnd
                          THEN Append(Age(timeouts, dt), PreviewEndDelay(stepDuration))
                          ELSE Age(timeouts, dt)
           /\ audio' = IF atEnd THEN audio
                       ELSE TransitionEffect(audio, isPlaying, next, audioRef)
           /\ lastCall' = IF fire THEN "triggerTransition" ELSE lastCall
           /\ shown' = IF atEnd THEN shown
                       ELSE [ActiveInfo(next, rows, numCols) EXCEPT !.at = elapsed + dt]
           /\ obs' = [obs EXCEPT
                !.transitions = IF fire THEN @ + 1 ELSE @,
                !.idleTransition = @ \/ (fire /\ ActiveInfo(next, rows, numCols).step = shown.step),
                !.stepMonotone = @ /\ (atEnd \/ ActiveInfo(next, rows, numCols).step >= shown.step)]
    /\ UNCHANGED <<cfgVars, wrapVars, layoutVars, editorVars, appVars, fadeVars, exportVars, isPlaying, currentIndex, closureIndex, raf, audioRef>>

\* What follows setIsPlaying(false): the audio effect's cleanup stops and drops
\* the engine, the timer effect's cleanup clears the interval and its else branch
\* resets the step.
PreviewStopped ==
    /\ isPlaying' = FALSE
    /\ audio' = IF audioRef THEN StopAudio(audio) ELSE audio
    /\ lastCall' = IF audioRef THEN "stop" ELSE lastCall
    /\ audioRef' = FALSE
    /\ interval' = -1
    /\ currentStep' = 0
    /\ shown' = ActiveInfo(0, rows, numCols)

\* The end-of-sequence timeout: onAnimationComplete().
PreviewEndTimeout ==
    /\ mode = "preview"
    /\ \E i \in DOMAIN timeouts, late \in TimerLateness :
        LET dt == timeouts[i] + late
        IN /\ elapsed' = 0
           /\ timeouts' = Age(RemoveAt(timeouts, i), dt)
           /\ obs' = [obs EXCEPT
                !.completions = @ + 1,
                !.completedAfterHold =
                    IF isPlaying
                    THEN elapsed + dt >= totalDuration + PreviewEndDelay(stepDuration)
                    ELSE @]
    /\ PreviewStopped
    /\ UNCHANGED <<cfgVars, wrapVars, layoutVars, editorVars, appVars, fadeVars, exportVars, currentIndex, closureIndex, raf>>

\* The play button while playing: setIsPlaying(false).
PreviewUserStop ==
    /\ mode = "preview" /\ isPlaying
    /\ PreviewStopped
    /\ elapsed' = 0
    /\ obs' = [NoObs EXCEPT !.plays = obs.plays, !.clean = FALSE]
    /\ UNCHANGED <<cfgVars, wrapVars, layoutVars, editorVars, appVars, fadeVars, exportVars, currentIndex, closureIndex, raf, timeouts>>

\* ------------------------------------------- getLines (utils/videoRenderer.ts)
\* The advance of a glyph, in the unit of maxWidth.
GlyphWidth(c) == IF c = "m" THEN 2 ELSE 1

\* ctx.measureText(s).width: the advances of the characters of s added up.
RECURSIVE MeasureText(_)
MeasureText(s) == IF s = <<>> THEN 0 ELSE GlyphWidth(Head(s)) + MeasureText(Tail(s))

\* A split that drops the empty words, as text.split(/ +/) would.
SplitSkippingEmpty(t) ==
    LET RECURSIVE Go(_, _, _)
        Go(i, cur, acc) ==
            IF i > Len(t) THEN (IF cur = <<>> /\ acc # <<>> THEN acc ELSE Append(acc, cur))
            ELSE IF t[i] = " "
                 THEN Go(i + 1, <<>>, IF cur = <<>> THEN acc ELSE Append(acc, cur))
                 ELSE Go(i + 1, Append(cur, t[i]), acc)
    IN Go(1, <<>>, <<>>)

\* text.split(" "): the pieces between the spaces, empty ones included; one empty
\* piece for the empty text.
Split(t) ==
    LET RECURSIVE Go(_, _, _)
        Go(i, cur, acc) ==
            IF i > Len(t) THEN Append(acc, cur)
            ELSE IF t[i] = " "
                 THEN Go(i + 1, <<>>, Append(acc, cur))
                 ELSE Go(i + 1, Append(cur, t[i]), acc)
    IN Go(1, <<>>, <<>>)

\* ls.join(" ")
RECURSIVE Join(_)
Join(ls) ==
    IF ls = <<>> THEN <<>>
    ELSE IF Len(ls) = 1 THEN ls[1]
    ELSE ls[1] \o <<" ">> \o Join(Tail(ls))

\* A test that also accepts a line of exactly the maximum width.
FitsOrTouches(width, limit) == width <= limit

\* width < maxWidth
Fits(width, limit) == width < limit

\* getLines(ctx, text, maxWidth)
GetLines(t, limit) ==
    LET words == Split(t)
        RECURSIVE Loop(_, _, _)
        Loop(i, currentLine, ls) ==
            IF i > Len(words) THEN Append(ls, currentLine)
            ELSE LET word == words[i]
                     width == MeasureText(currentLine \o <<" ">> \o word)
                 IN IF Fits(width, limit)
                    THEN Loop(i + 1, currentLine \o <<" ">> \o word, ls)
                    ELSE Loop(i + 1, word, Append(ls, currentLine))
    IN Loop(2, words[1], <<>>)

\* A call of getLines returns.
GetLinesCall ==
    /\ mode = "wrap" /\ pc = "load"
    /\ lines' = GetLines(text, maxWidth)
    /\ pc' = "done"
    /\ UNCHANGED <<cfgVars, text, maxWidth, layoutVars, editorVars, appVars, fadeVars,
                   audio, lastCall, clock, promise, recorder,
                   encoderFailure, startTime, lastStepIndex, progress, assetVars,
                   elapsed, shown, previewVars, obs>>

\* ------------------------------------ renderTableImage (unnamed/part_003)
\* What the else branch of the background block draws over the flat fill.
ProceduralImageBackground(th) ==
    CASE th = "COSMIC" -> "gradient and stars"
      [] th = "NEON" -> "black and grid"
      [] OTHER -> "flat"

\* The background block: the flat fill, then either the try around loadImage,
\* whose catch only warns, or the procedural drawing.
ImageBackground(src, th) ==
    IF src # ""
    THEN IF LoadImage(src) = "resolved" THEN "image" ELSE "flat"
    ELSE ProceduralImageBackground(th)

\* The footer of renderTableImage: the brand text and the AI label, drawn whatever
\* the switches; a still has no progress bar.
ImageOverlays(f) == [appName |-> TRUE, aiWatermark |-> TRUE, progressBar |-> FALSE]

\* From the call to the end of the background block.
ImageDrawBackground ==
    /\ mode = "image" /\ pc = "load"
    /\ bgImage' = LoadOrNull(backgroundImage)
    /\ painted' = [painted EXCEPT !.background = ImageBackground(backgroundImage, theme)]
    /\ pc' = "logo"
    /\ UNCHANGED <<cfgVars, wrapVars, layoutVars, editorVars, appVars, fadeVars, audio, lastCall, clock, promise, recorder, encoderFailure,
                   startTime, lastStepIndex, progress, logoImage, elapsed, shown,
                   previewVars, obs>>

\* The logo load.
ImageLoadLogo ==
    /\ mode = "image" /\ pc = "logo"
    /\ logoImage' = LoadOrNull(logoSrc)
    /\ pc' = "compose"
    /\ UNCHANGED <<cfgVars, wrapVars, layoutVars, editorVars, appVars, fadeVars, audio, lastCall, clock, promise, recorder, encoderFailure,
                   startTime, lastStepIndex, progress, bgImage, painted, elapsed, shown,
                   previewVars, obs>>

\* Layout, table, footer with the logo or its text placeholder, toDataURL.
ImageCompose ==
    /\ mode = "image" /\ pc = "compose"
    /\ painted' = [painted EXCEPT !.logo = IF logoImage THEN "image" ELSE "placeholder",
                                  !.overlays = ImageOverlays(flags)]
    /\ promise' = "resolved"
    /\ pc' = "done"
    /\ UNCHANGED <<cfgVars, wrapVars, layoutVars, editorVars, appVars, fadeVars, audio, lastCall, clock, recorder, encoderFailure,
                   startTime, lastStepIndex, progress, bgImage, logoImage, elapsed, shown,
                   previewVars, obs>>

\* ----------------------- layout of renderTableImage (unnamed/part_003)
\* Lengths are in steps of 1/RoundingGrid pixel, so that the quotient of the
\* padding expansion, the one number of the computation that is not a whole
\* number of pixels, has a value: the nearest step, as a floating-point
\* division yields the nearest number it can hold.
Px(x) == x * RoundingGrid

\* a / b rounded to the nearest whole number, for a >= 0 and b > 0.
DivRound(a, b) == (2 * a + b) \div (2 * b)

\* The least whole number not below a / b, for a >= 0 and b > 0.
CeilDiv(a, b) == (a + b - 1) \div b

\* n words "mm" separated by single spaces.
RECURSIVE TextOfWords(_)
TextOfWords(n) ==
    IF n <= 1 THEN <<"m", "m">> ELSE <<"m", "m", " ">> \o TextOfWords(n - 1)

CellTexts == {TextOfWords(n) : n \in CellWordCounts}

\* A column name: one word.
HeaderText == <<"m", "m">>

\* headerBlockHeight
HeaderBlockHeight(tl, sl) ==
    tl * titleLineHeight + (IF sl > 0 THEN sl * summaryLineHeight + 20 ELSE 0) + 60

\* availableTableHeight, in pixels
AvailableTableHeight(tl, sl) ==
    canvasHeight - margin * 2 - HeaderBlockHeight(tl, sl) - footerHeight

availableTableHeight == AvailableTableHeight(titleLines, summaryLines)

\* getLines(ctx, t, textWidth).length at font size f in a table of cols columns:
\* a glyph advances GlyphWidth times the font size, and textWidth is
\* (canvasWidth - 2 margin) / cols - 2 cellPadding; a width w in font sizes is
\* below textWidth exactly when w < (contentWidth - 2 cellPadding cols) / (f cols).
LinesAt(t, f, cols) ==
    Len(GetLines(t, CeilDiv(canvasWidth - margin * 2 - 2 * cellPadding * cols, f * cols)))

\* Math.floor(fSize * 1.3)
LineHeight(f) == (13 * f) \div 10

\* rHeights of calculateLayout, rPad in steps.
RowHeights(f, rPad) ==
    [r \in 1..rows |->
        Max(Px(Max(1, LinesAt(cellTexts[r], f, numCols)) * LineHeight(f)) + rPad,
            Px(minRowHeight))]

RECURSIVE SumSeq(_)
SumSeq(q) == IF q = <<>> THEN 0 ELSE Head(q) + SumSeq(Tail(q))

\* totalHeight of calculateLayout(fSize, hFSize, rPad), in steps.
CalculateLayout(f, hf, rPad) ==
    Px(LinesAt(HeaderText, hf, numCols) * LineHeight(hf)) + rPad + SumSeq(RowHeights(f, rPad))

\* A padding that shrinks without a floor.
ShrinkPaddingUnfloored(rPad) == rPad - Px(4)

\* Math.max(20, rowPadding - 4)
ShrinkPadding(rPad) == Max(Px(floorRowPadding), rPad - Px(4))

\* Math.max(25, headerFontSize - 2)
ShrinkHeaderFont(hf) == Max(floorFontSize, hf - 2)

\* The locals before the initial calculation.
IdleSolver ==
    [phase |-> "idle", fontSize |-> 55, headerFontSize |-> 45, rowPadding |-> Px(40),
     attempts |-> 0, totalHeight |-> 0, before |-> 0, extra |-> 0, recomputes |-> 0]

\* tableLayout = calculateLayout(fontSize, headerFontSize, rowPadding)
LayoutStart ==
    /\ mode = "layout" /\ solver.phase = "idle"
    /\ solver' = [solver EXCEPT
          !.phase = "loop",
          !.totalHeight = CalculateLayout(solver.fontSize, solver.headerFontSize,
                                          solver.rowPadding)]
    /\ UNCHANGED <<cfgVars, wrapVars, cellTexts, titleLines, summaryLines, editorVars, appVars, fadeVars, audio, lastCall,
                   exportVars, elapsed, shown, previewVars, obs>>

\* A loop condition that gives up one setting above the floor.
TooTallAboveFloor(sv) ==
    /\ sv.totalHeight > Px(availableTableHeight)
    /\ sv.fontSize > floorFontSize + 3
    /\ sv.attempts < maxAttempts

\* The condition of the downscale loop.
TooTall(sv) ==
    /\ sv.totalHeight > Px(availableTableHeight)
    /\ sv.fontSize > floorFontSize
    /\ sv.attempts < maxAttempts

\* One iteration of the downscale loop.
ShrinkStep ==
    /\ mode = "layout" /\ solver.phase = "loop" /\ TooTall(solver)
    /\ LET f == solver.fontSize - 3
           hf == ShrinkHeaderFont(solver.headerFontSize)
           rPad == ShrinkPadding(solver.rowPadding)
       IN solver' = [solver EXCEPT
             !.fontSize = f, !.headerFontSize = hf, !.rowPadding = rPad,
             !.totalHeight = CalculateLayout(f, hf, rPad),
             !.attempts = @ + 1]
    /\ UNCHANGED <<cfgVars, wrapVars, cellTexts, titleLines, summaryLines, editorVars, appVars, fadeVars, audio, lastCall,
                   exportVars, elapsed, shown, previewVars, obs>>

\* An expansion that hands out the whole surplus to every item.
ExtraPaddingUndivided(diff, items) == Min(diff, Px(paddingCap))

\* Math.min(diff / (data.data.length + 1), 80)
ExtraPadding(diff, items) == Min(DivRound(diff, items), Px(paddingCap))

\* The loop ends; the padding is expanded when the table takes less than 85% of
\* the available height.
LayoutFinish ==
    /\ mode = "layout" /\ solver.phase = "loop" /\ ~TooTall(solver)
    /\ IF 100 * solver.totalHeight < 85 * Px(availableTableHeight)
       THEN LET diff == Px(availableTableHeight) - solver.totalHeight
                extra == ExtraPadding(diff, rows + 1)
                rPad == solver.rowPadding + extra
            IN solver' = [solver EXCEPT
                  !.phase = "done", !.rowPadding = rPad,
                  !.before = solver.totalHeight, !.extra = extra,
                  !.totalHeight = CalculateLayout(solver.fontSize, solver.headerFontSize, rPad),
                  !.recomputes = @ + 1]
       ELSE solver' = [solver EXCEPT !.phase = "done", !.before = solver.totalHeight]
    /\ UNCHANGED <<cfgVars, wrapVars, cellTexts, titleLines, summaryLines, editorVars, appVars, fadeVars, audio, lastCall,
                   exportVars, elapsed, shown, previewVars, obs>>

\* ------------------------------------------------- the editor (App.tsx)
\* A TableData by its shape: columns.length and the length of every row.
TableShapes ==
    [columns : 0..MaxEditorCols,
     data : UNION {[1..n -> 0..MaxEditorCols] : n \in 0..MaxEditorRows}]

\* DEFAULT_TABLE_DATA: every row as long as the columns.
DefaultTable ==
    [columns |-> MaxEditorCols, data |-> [r \in 1..MaxEditorRows |-> MaxEditorCols]]

\* The summaries a TableData may carry; "" stands for none.
Summaries == {"", "s1", "s2"}

\* What a member of a parsed JSON value may be.
JsonFieldKinds == {"absent", "string", "array"}

\* null, of jsonError and of voicePcm.
NoError == "null"
NoVoice == "null"

\* No request of handleGenerateVoice or handleRegenerateSummary is awaited.
NoRequest == [stage |-> "none", text |-> ""]

\* JSON.stringify(newData, null, 2), by what JSON.parse makes of it.
Stringify(table, s) ==
    [kind |-> "value", columns |-> "array", data |-> "array",
     table |-> table, summary |-> s]

\* What a session looks at: an editor session at the shapes of the table, an
\* app session at its summary and at the members a JSON value lacks.
TypedTables == IF mode = "editor" THEN TableShapes ELSE {DefaultTable}
TypedSummaries == IF mode = "editor" THEN {""} ELSE Summaries
TypedFields ==
    IF mode = "editor" THEN {<<"absent", "absent">>}
    ELSE (JsonFieldKinds \X JsonFieldKinds) \ {<<"array", "array">>}

\* What the user may type into the JSON editor: a text that does not parse, the
\* text null, a JSON value without the two arrays, or an object with columns and
\* data arrays.
JsonTexts ==
    {[kind |-> k, columns |-> "absent", data |-> "absent",
      table |-> DefaultTable, summary |-> ""] :
        k \in (IF mode = "editor" THEN {"syntax error"} ELSE {"syntax error", "null"})}
    \cup {[kind |-> "value", columns |-> f[1], data |-> f[2],
           table |-> DefaultTable, summary |-> ""] : f \in TypedFields}
    \cup {Stringify(t, s) : t \in TypedTables, s \in TypedSummaries}

\* What generateTableFromPrompt and fixTableJson may come back with: a rejection
\* or whatever object the reply parses to.
AiResults ==
    {[kind |-> "rejected", table |-> DefaultTable, summary |-> ""]}
    \cup {[kind |-> "table", table |-> t, summary |-> s] :
            t \in TypedTables, s \in TypedSummaries}

\* What generateSummaryFromData may come back with: a rejection or text.trim().
SummaryReplies == {"rejected"} \cup Summaries

\* A validation that looks at columns alone.
IsTableDataColumnsOnly(parsed) == parsed.columns = "array"

\* parsed.columns && Array.isArray(parsed.columns) && parsed.data &&
\* Array.isArray(parsed.data)
IsTableData(parsed) == parsed.columns = "array" /\ parsed.data = "array"

\* e.message of what the try block of handleJsonChange throws, NoError if it
\* runs to its end.
JsonError(newJson) ==
    IF newJson.kind = "syntax error" THEN "SyntaxError"
    ELSE IF newJson.kind = "null" THEN "TypeError"
    ELSE IF ~IsTableData(newJson) THEN "Missing 'columns' or 'data' array."
    ELSE NoError

\* A session of the application.
AppSession == mode \in {"editor", "app"}

\* handleJsonChange(newJson)
HandleJsonChange ==
    /\ AppSession
    /\ \E newJson \in JsonTexts :
         /\ jsonString' = newJson
         /\ IF JsonError(newJson) = NoError
            THEN /\ data' = newJson.table /\ summary' = newJson.summary
                 /\ isValidJson' = TRUE /\ jsonError' = NoError
            ELSE /\ UNCHANGED <<data, summary>>
                 /\ isValidJson' = FALSE /\ jsonError' = JsonError(newJson)
    /\ UNCHANGED <<cfgVars, wrapVars, layoutVars, fadeVars, consumer, voiceVars, captureVars,
                   audio, lastCall, exportVars, elapsed, shown, previewVars, obs>>

\* setJsonString(formatted); setData(await ...); setIsValidJson(true) of
\* handleGenerate and handleFixJson.
SetDataFromAi(result) ==
    /\ data' = result.table /\ summary' = result.summary
    /\ jsonString' = Stringify(result.table, result.summary)
    /\ isValidJson' = TRUE

\* handleGenerate() with a prompt, from the reply on; the catch alerts.
HandleGenerate ==
    /\ AppSession
    /\ \E result \in AiResults :
        IF result.kind = "table"
        THEN /\ SetDataFromAi(result)
             /\ voicePcmOf' = NoVoice
             /\ UNCHANGED <<jsonError, isGenVoice, pending>>
        ELSE UNCHANGED <<data, summary, jsonString, isValidJson, jsonError, voiceVars>>
    /\ UNCHANGED <<cfgVars, wrapVars, layoutVars, fadeVars, consumer, captureVars, audio, lastCall,
                   exportVars, elapsed, shown, previewVars, obs>>

\* handleFixJson(), offered while the text is invalid, from the reply on; the
\* catch alerts.
HandleFixJson ==
    /\ AppSession /\ ~isValidJson
    /\ \E result \in AiResults :
        IF result.kind = "table"
        THEN SetDataFromAi(result) /\ jsonError' = NoError
        ELSE UNCHANGED <<data, summary, jsonString, isValidJson, jsonError>>
    /\ UNCHANGED <<cfgVars, wrapVars, layoutVars, fadeVars, consumer, voiceVars, captureVars,
                   audio, lastCall, exportVars, elapsed, shown, previewVars, obs>>

\* A render of App: <TablePreview data={data} ...>, and handlers that capture
\* the state of this render.
RenderPreview ==
    /\ AppSession
    /\ consumer' = "TablePreview"
    /\ closureIsExporting' = isExporting
    /\ UNCHANGED <<cfgVars, wrapVars, layoutVars, fadeVars, data, isValidJson, jsonString,
                   jsonError, summary, voiceVars, isExporting, captures, audio, lastCall,
                   exportVars, elapsed, shown, previewVars, obs>>

\* handleExportVideo() up to its await: renderVideo(data, ...)
HandleExportVideo ==
    /\ AppSession /\ ~closureIsExporting /\ captures < MaxCaptures
    /\ isExporting' = TRUE
    /\ isPlaying' = FALSE
    /\ captures' = captures + 1
    /\ consumer' = "renderVideo"
    /\ UNCHANGED <<cfgVars, wrapVars, layoutVars, fadeVars, data, isValidJson, jsonString,
                   jsonError, summary, voiceVars, closureIsExporting, audio, lastCall,
                   exportVars, elapsed, shown, currentIndex, closureIndex, raf,
                   currentStep, interval, audioRef, timeouts, obs>>

\* handleExportImage() up to its await: renderTableImage(data, ...)
HandleExportImage ==
    /\ AppSession /\ ~closureIsExporting /\ captures < MaxCaptures
    /\ isExporting' = TRUE
    /\ captures' = captures + 1
    /\ consumer' = "renderTableImage"
    /\ UNCHANGED <<cfgVars, wrapVars, layoutVars, fadeVars, data, isValidJson, jsonString,
                   jsonError, summary, voiceVars, closureIsExporting, audio, lastCall,
                   exportVars, elapsed, shown, previewVars, obs>>

\* The finally block of handleExportVideo or handleExportImage, once the promise
\* awaited has settled either way.
ExportSettles ==
    /\ mode = "app" /\ captures > 0
    /\ captures' = captures - 1
    /\ isExporting' = FALSE
    /\ UNCHANGED <<cfgVars, wrapVars, layoutVars, fadeVars, editorVars, jsonString, jsonError,
                   summary, voiceVars, closureIsExporting, audio, lastCall, exportVars,
                   elapsed, shown, previewVars, obs>>

\* The play button of the toolbar, hidden while exporting: setIsPlaying(!isPlaying)
TogglePlay ==
    /\ mode = "app" /\ ~closureIsExporting
    /\ isPlaying' = ~isPlaying
    /\ UNCHANGED <<cfgVars, wrapVars, layoutVars, fadeVars, editorVars, appVars, audio,
                   lastCall, exportVars, elapsed, shown, currentIndex, closureIndex, raf,
                   currentStep, interval, audioRef, timeouts, obs>>

\* onAnimationComplete of the preview: setIsPlaying(false)
OnAnimationComplete ==
    /\ mode = "app" /\ isPlaying
    /\ isPlaying' = FALSE
    /\ UNCHANGED <<cfgVars, wrapVars, layoutVars, fadeVars, editorVars, appVars, audio,
                   lastCall, exportVars, elapsed, shown, currentIndex, closureIndex, raf,
                   currentStep, interval, audioRef, timeouts, obs>>

\* handleGenerateVoice() up to its first await; the button is rendered while
\* voicePcm is null and enabled while isGenVoice is false.
HandleGenerateVoice ==
    /\ mode = "app" /\ ~isGenVoice /\ voicePcmOf = NoVoice /\ pending = NoRequest
    /\ isGenVoice' = TRUE
    /\ pending' = IF summary = "" THEN [stage |-> "summary", text |-> ""]
                  ELSE [stage |-> "voice", text |-> summary]
    /\ UNCHANGED <<cfgVars, wrapVars, layoutVars, fadeVars, editorVars, jsonString, jsonError,
                   summary, voicePcmOf, captureVars, audio, lastCall, exportVars,
                   elapsed, shown, previewVars, obs>>

\* handleGenerateVoice() from the reply of generateSummaryFromData to the next
\* await or the end.
VoiceSummaryArrives ==
    /\ mode = "app" /\ pending.stage = "summary"
    /\ \E summaryText \in SummaryReplies :
        IF summaryText = "rejected"
        THEN /\ isGenVoice' = FALSE /\ pending' = NoRequest
             /\ UNCHANGED <<summary, jsonString>>
        ELSE /\ summary' = summaryText
             /\ jsonString' = Stringify(data, summaryText)
             /\ isGenVoice' = (summaryText # "")
             /\ pending' = IF summaryText # "" THEN [stage |-> "voice", text |-> summaryText]
                           ELSE NoRequest
    /\ UNCHANGED <<cfgVars, wrapVars, layoutVars, fadeVars, editorVars, jsonError, voicePcmOf,
                   captureVars, audio, lastCall, exportVars, elapsed, shown, previewVars, obs>>

\* handleGenerateVoice() from the reply of generateVoiceover on:
\* setVoicePcm(pcm), or the catch.
VoiceArrives ==
    /\ mode = "app" /\ pending.stage = "voice"
    /\ \E resolved \in BOOLEAN :
        voicePcmOf' = IF resolved THEN pending.text ELSE voicePcmOf
    /\ isGenVoice' = FALSE
    /\ pending' = NoRequest
    /\ UNCHANGED <<cfgVars, wrapVars, layoutVars, fadeVars, editorVars, jsonString, jsonError,
                   summary, captureVars, audio, lastCall, exportVars, elapsed, shown,
                   previewVars, obs>>

\* handleRegenerateSummary() up to its await; the button is rendered while there
\* is a summary and no voice.
HandleRegenerateSummary ==
    /\ mode = "app" /\ ~isGenVoice /\ summary # "" /\ voicePcmOf = NoVoice
    /\ pending = NoRequest
    /\ isGenVoice' = TRUE
    /\ pending' = [stage |-> "regenerate", text |-> ""]
    /\ UNCHANGED <<cfgVars, wrapVars, layoutVars, fadeVars, editorVars, jsonString, jsonError,
                   summary, voicePcmOf, captureVars, audio, lastCall, exportVars,
                   elapsed, shown, previewVars, obs>>

\* handleRegenerateSummary() from the reply on.
RegeneratedSummaryArrives ==
    /\ mode = "app" /\ pending.stage = "regenerate"
    /\ \E reply \in SummaryReplies :
        IF reply = "rejected"
        THEN UNCHANGED <<summary, jsonString, voicePcmOf>>
        ELSE /\ summary' = reply
             /\ jsonString' = Stringify(data, reply)
             /\ voicePcmOf' = NoVoice
    /\ isGenVoice' = FALSE
    /\ pending' = NoRequest
    /\ UNCHANGED <<cfgVars, wrapVars, layoutVars, fadeVars, editorVars, jsonError,
                   captureVars, audio, lastCall, exportVars, elapsed, shown, previewVars, obs>>

\* ------------------------------------------------------------ sessions
InitCommon ==
    /\ rows \in 0..MaxRows
    /\ numCols \in 1..MaxCols
    /\ durationPerItem \in Durations
    /\ voicePcm \in VoicePayloads
    /\ backgroundImage \in AssetRefs /\ logoSrc \in AssetRefs /\ theme \in Themes
    /\ layout \in Layouts
    /\ flags \in OverlayFlags
    /\ bgImage = FALSE /\ logoImage = FALSE /\ painted = NothingPainted
    /\ clock = 1000
    /\ pc = "load" /\ promise = "pending" /\ recorder = "none" /\ encoderFailure = ""
    /\ startTime = 0 /\ lastStepIndex = -1 /\ progress = NoValue
    /\ elapsed = 0 /\ shown = NothingShown
    /\ isPlaying = FALSE /\ currentIndex = 0 /\ closureIndex = 0 /\ raf = FALSE
    /\ currentStep = 0 /\ interval = -1 /\ audioRef = FALSE /\ timeouts = <<>>
    /\ obs = NoObs

\* A session without background image and logo.
PlainAssets == backgroundImage = "" /\ logoSrc = "" /\ theme = "COSMIC"

\* The locals of the opacity computation before drawFrame ran.
IdleFade == [durationPerItem |-> 0, stepTime |-> 0, opacity |-> NoValue]

\* DEFAULT_ANIMATION_CONFIG: showProgressBar, showAppName, showAiWatermark
DefaultFlags == [showAppName |-> TRUE, showAiWatermark |-> FALSE, showProgressBar |-> TRUE]

\* A session with the default layout and overlays in which one envelope is not
\* looked at.
StackedOnly == layout = "STACKED" /\ flags = DefaultFlags /\ fade = IdleFade

\* A session without the editor.
NoEditor ==
    /\ data = DefaultTable /\ isValidJson = TRUE /\ consumer = "none"
    /\ jsonString = Stringify(DefaultTable, "") /\ jsonError = NoError /\ summary = ""
    /\ voicePcmOf = NoVoice /\ isGenVoice = FALSE /\ pending = NoRequest
    /\ isExporting = FALSE /\ closureIsExporting = FALSE /\ captures = 0

\* A session in which getLines is not looked at and no image is laid out.
NoText ==
    /\ text = <<>> /\ maxWidth = 0 /\ lines = <<>>
    /\ cellTexts = <<>> /\ titleLines = 1 /\ summaryLines = 0 /\ solver = IdleSolver
    /\ NoEditor

\* An engine just constructed.
InitAudio ==
    /\ mode = "audio" /\ PlainAssets
    /\ rows = 0 /\ numCols = 1 /\ durationPerItem = 1 /\ voicePcm = ""
    /\ \E s \in {"running", "suspended"} : audio = NewAudio(s)
    /\ lastCall = "constructor"

\* renderVideo after new PresentationAudio(true).
InitExport ==
    /\ mode = "export"
    /\ \E s \in {"running", "suspended"} : audio = NewAudio(s)
    /\ lastCall = "constructor"

\* renderTableImage called on a one-cell table; no engine takes part.
InitImage ==
    /\ mode = "image"
    /\ rows = 1 /\ numCols = 1 /\ durationPerItem = 1 /\ voicePcm = ""
    /\ audio = NewAudio("suspended")
    /\ lastCall = "none"

Init ==
    /\ InitCommon /\ NoText /\ StackedOnly
    /\ \/ InitAudio
       \/ InitExport /\ PlainAssets
       \/ InitLegacy /\ PlainAssets
       \/ InitPreview /\ PlainAssets
       \/ InitImage

Next ==
    \/ SchedulerTick \/ ResumeSettles \/ ContextCloses
    \/ AdvanceAudioClock \/ CallStart \/ CallStop \/ CallPlaySpeech \/ CallTriggerTransition
    \/ ExportLoadAssets \/ ExportStartAudio \/ ExportSetupRecorder
    \/ RecorderError \/ DrawFrame \/ RecorderOnStop
    \/ ImageDrawBackground \/ ImageLoadLogo \/ ImageCompose
    \/ LegacyPlay \/ LegacyFrame \/ LegacyEndTimeout \/ LegacyUserStop
    \/ PreviewPlay \/ PreviewTick \/ PreviewEndTimeout \/ PreviewUserStop

Spec == Init /\ [][Next]_vars

\* One renderVideo call alone, with frame callbacks that keep coming (the browser
\* calls back every requested animation frame) and the stop event dispatched
\* after recorder.stop().
ExportNext ==
    \/ SchedulerTick \/ ResumeSettles \/ ContextCloses
    \/ ExportLoadAssets \/ ExportStartAudio \/ ExportSetupRecorder
    \/ RecorderError \/ DrawFrame \/ RecorderOnStop

ExportInit == InitCommon /\ NoText /\ StackedOnly /\ InitExport /\ PlainAssets

ExportFairSpec ==
    /\ ExportInit
    /\ [][ExportNext]_vars
    /\ WF_vars(DrawFrame)
    /\ WF_vars(RecorderOnStop)

\* renderVideo calls on a two-column table with every combination of background
\* image, logo and theme, under the same fairness.
AssetExportInit ==
    /\ InitCommon /\ NoText /\ StackedOnly /\ InitExport
    /\ rows \in 1..MaxRows /\ numCols = 2 /\ durationPerItem = 1 /\ voicePcm = ""

AssetExportSpec ==
    /\ AssetExportInit
    /\ [][ExportNext]_vars
    /\ WF_vars(DrawFrame)
    /\ WF_vars(RecorderOnStop)

\* getLines called on every text of at most MaxTextLen characters with every
\* maximum width up to MaxWidth.
InitWrap ==
    /\ InitCommon
    /\ mode = "wrap"
    /\ rows = 1 /\ numCols = 1 /\ durationPerItem = 1 /\ voicePcm = "" /\ PlainAssets
    /\ audio = NewAudio("suspended")
    /\ lastCall = "none"
    /\ text \in Texts /\ maxWidth \in Widths /\ lines = <<>>
    /\ cellTexts = <<>> /\ titleLines = 1 /\ summaryLines = 0 /\ solver = IdleSolver
    /\ NoEditor /\ StackedOnly

WrapSpec == InitWrap /\ [][GetLinesCall]_vars

\* The layout of renderTableImage computed for every table of at most MaxRows
\* rows and MaxCols columns with cells drawn from CellTexts, under a title of one
\* or two lines and a summary of SummaryLines lines.
InitLayout ==
    /\ InitCommon
    /\ mode = "layout"
    /\ durationPerItem = 1 /\ voicePcm = "" /\ PlainAssets
    /\ audio = NewAudio("suspended")
    /\ lastCall = "none"
    /\ text = <<>> /\ maxWidth = 0 /\ lines = <<>>
    /\ cellTexts \in [1..rows -> CellTexts]
    /\ titleLines \in {1, 2} /\ summaryLines \in SummaryLines
    /\ solver = IdleSolver
    /\ NoEditor /\ StackedOnly

LayoutNext == LayoutStart \/ ShrinkStep \/ LayoutFinish

LayoutSpec == InitLayout /\ [][LayoutNext]_vars

\* The application with the default table in the editor.
InitEditor ==
    /\ InitCommon /\ NoText /\ StackedOnly
    /\ mode = "editor"
    /\ rows = MaxRows /\ numCols = MaxCols /\ durationPerItem = 1 /\ voicePcm = ""
    /\ PlainAssets
    /\ audio = NewAudio("suspended")
    /\ lastCall = "none"

EditorNext ==
    \/ HandleJsonChange \/ HandleGenerate \/ HandleFixJson
    \/ RenderPreview \/ HandleExportVideo \/ HandleExportImage

EditorSpec == InitEditor /\ [][EditorNext]_vars

\* The opacity computed at every millisecond of a step of every duration in
\* FadeDurations.
InitFade ==
    /\ InitCommon /\ NoText
    /\ mode = "fade" /\ layout = "STACKED" /\ flags = DefaultFlags
    /\ rows = 1 /\ numCols = 2 /\ durationPerItem = 1 /\ voicePcm = "" /\ PlainAssets
    /\ audio = NewAudio("suspended")
    /\ lastCall = "none"
    /\ \E dur \in FadeDurations : \E t \in 0..(dur - 1) :
         fade = [durationPerItem |-> dur, stepTime |-> t, opacity |-> NoValue]

FadeSpec == InitFade /\ [][OpacityCall]_vars

\* The application with the default table, its summary and the requests it
\* awaits looked at.
InitApp ==
    /\ InitCommon /\ NoText /\ StackedOnly
    /\ mode = "app"
    /\ rows = MaxRows /\ numCols = MaxCols /\ durationPerItem = 1 /\ voicePcm = ""
    /\ PlainAssets
    /\ audio = NewAudio("suspended")
    /\ lastCall = "none"

AppNext ==
    \/ HandleJsonChange \/ HandleGenerate \/ HandleFixJson \/ RenderPreview
    \/ HandleExportVideo \/ HandleExportImage \/ ExportSettles
    \/ TogglePlay \/ OnAnimationComplete
    \/ HandleGenerateVoice \/ VoiceSummaryArrives \/ VoiceArrives
    \/ HandleRegenerateSummary \/ RegeneratedSummaryArrives

AppSpec == InitApp /\ [][AppNext]_vars

\* Exports and previews of tables of one or two columns in each of the five
\* layouts.
InitSurface ==
    /\ InitCommon /\ NoText /\ fade = IdleFade /\ flags = DefaultFlags /\ PlainAssets
    /\ rows \in 1..MaxRows /\ numCols \in {1, 2} /\ durationPerItem = 1 /\ voicePcm = ""
    /\ InitExport \/ InitLegacy \/ InitPreview

SurfaceNext ==
    \/ SchedulerTick \/ ResumeSettles \/ ContextCloses
    \/ ExportLoadAssets \/ ExportStartAudio \/ ExportSetupRecorder
    \/ RecorderError \/ DrawFrame \/ RecorderOnStop
    \/ LegacyPlay \/ LegacyFrame \/ LegacyEndTimeout \/ LegacyUserStop
    \/ PreviewPlay \/ PreviewTick \/ PreviewEndTimeout \/ PreviewUserStop

SurfaceSpec == InitSurface /\ [][SurfaceNext]_vars

\* An engine just constructed, started and stopped at any time while the audio
\* clock runs to MaxAmbientClock half seconds.
InitAmbient ==
    /\ InitCommon /\ NoText /\ StackedOnly /\ PlainAssets
    /\ mode = "ambient"
    /\ rows = 0 /\ numCols = 1 /\ durationPerItem = 1 /\ voicePcm = ""
    /\ \E s \in {"running", "suspended"} : audio = NewAudio(s)
    /\ lastCall = "constructor"

AmbientNext ==
    \/ SchedulerTick \/ ResumeSettles \/ ContextCloses
    \/ AdvanceAudioClock \/ CallStart \/ CallStop

AmbientSpec == InitAmbient /\ [][AmbientNext]_vars

\* A video export, an image export and a preview of a table of one cell under
\* every combination of the overlay switches.
InitOverlay ==
    /\ InitCommon /\ NoText /\ layout = "STACKED" /\ fade = IdleFade /\ PlainAssets
    /\ rows = 1 /\ numCols = 1 /\ durationPerItem = 1 /\ voicePcm = ""
    /\ InitExport \/ InitLegacy \/ InitImage

OverlayNext ==
    \/ SchedulerTick \/ ResumeSettles \/ ContextCloses
    \/ ExportLoadAssets \/ ExportStartAudio \/ ExportSetupRecorder
    \/ RecorderError \/ DrawFrame \/ RecorderOnStop
    \/ ImageDrawBackground \/ ImageLoadLogo \/ ImageCompose
    \/ LegacyPlay \/ LegacyFrame \/ LegacyEndTimeout \/ LegacyUserStop

OverlaySpec == InitOverlay /\ [][OverlayNext]_vars

\* ---------------------------------------------------------- properties
\* The attribute columns of the table: 1..columns.length - 1, or the subject
\* column alone when there is no other.
AttributeColumns == IF numCols > 1 THEN 1..(numCols - 1) ELSE {0}

\* C1: in an export with no encoder failure, drawFrame calls triggerTransition
\* never on the first frame, never during the end hold, and exactly
\* totalSteps - 1 times by the time the export is done, whatever the gaps
\* between the frames.
C1_OneStingerPerBoundary ==
    (mode = "export" /\ encoderFailure = "") =>
        /\ ~obs.transitionAtStart
        /\ ~obs.transitionInHold
        /\ (pc = "done" /\ totalSteps >= 1) => obs.transitions = totalSteps - 1

\* C2: in either live preview triggerTransition is never called on a frame or
\* tick that left the displayed step unchanged, never at elapsed 0, and a
\* playback that ran undisturbed to its completion made exactly totalSteps - 1
\* calls.
C2_OneStingerPerStepChange ==
    mode \in {"legacy", "preview"} =>
        /\ ~obs.idleTransition
        /\ ~obs.transitionAtStart
        /\ (obs.clean /\ obs.completions = 1 /\ totalSteps >= 1)
               => obs.transitions = totalSteps - 1

\* C3: for totalSteps > 0 the step shown by the export compositor and by the
\* frame-driven preview at elapsed e is min(floor(e / durationPerItem),
\* totalSteps - 1), lies in 0..totalSteps - 1 and never decreased over the frames
\* of the playback.
C3_StepIndexFollowsElapsed ==
    (mode \in {"export", "legacy"} /\ totalSteps > 0 /\ shown.at >= 0) =>
        /\ shown.step = Min(shown.at \div (durationPerItem * 1000), totalSteps - 1)
        /\ shown.step \in 0..(totalSteps - 1)
        /\ obs.stepMonotone

\* The scenario of C3: columns [X, Y], two rows, 2 s per item, elapsed 2000 ms:
\* step 1 is shown, the second row's only attribute.
C3_ScenarioA ==
    /\ mode = "export" /\ rows = 2 /\ numCols = 2 /\ durationPerItem = 2
    /\ shown.at = 2000 /\ shown.step = 1 /\ shown.rowIdx = 1 /\ shown.colIdx = 1

\* The position of the pair (row r, attribute column col) when the pairs are
\* listed in row-major order, from 0.
RowMajorRank(r, col) ==
    r * Cardinality(AttributeColumns) + (col - (IF numCols > 1 THEN 1 ELSE 0))

\* C4: every step s of 0..totalSteps - 1 maps to rowIdx = floor(s / numAttributes)
\* in 0..rows - 1 and to colIdx = (s mod numAttributes) + 1 (0 for a one-column
\* table); the steps enumerate the (row, attribute column) pairs once each in
\* row-major order (the cell of step s is the pair of row-major rank s, and the
\* pair of rank k is the cell of step k); the export and both previews compute
\* the same cell, and the cell on the surface is the one of the step shown.
C4_CellMapping ==
    /\ \A s \in 0..(totalSteps - 1) :
         LET c == ExportCell(s, numCols)
         IN /\ c.rowIdx = s \div numAttributes /\ c.rowIdx \in 0..(rows - 1)
            /\ c.colIdx = IF numCols > 1 THEN (s % numAttributes) + 1 ELSE 0
            /\ c.colIdx \in AttributeColumns
            /\ LegacyCell(s, numCols) = c
            /\ ActiveInfo(s, rows, numCols).rowIdx = c.rowIdx
            /\ ActiveInfo(s, rows, numCols).colIdx = c.colIdx
    /\ \A s \in 0..(totalSteps - 1) :
         RowMajorRank(ExportCell(s, numCols).rowIdx, ExportCell(s, numCols).colIdx) = s
    /\ \A r \in 0..(rows - 1), col \in AttributeColumns :
         /\ RowMajorRank(r, col) \in 0..(totalSteps - 1)
         /\ ExportCell(RowMajorRank(r, col), numCols) = [rowIdx |-> r, colIdx |-> col]
    /\ (totalSteps > 0 /\ shown.at >= 0) =>
         /\ shown.rowIdx = shown.step \div numAttributes
         /\ shown.colIdx = IF numCols > 1 THEN (shown.step % numAttributes) + 1 ELSE 0

\* The interval-driven preview shows the last cell of a 2 x 3 table at its last
\* step.
C4_LastCellShown ==
    /\ mode = "preview" /\ rows = 2 /\ numCols = 3 /\ isPlaying
    /\ shown.step = 3 /\ shown.rowIdx = 1 /\ shown.colIdx = 2

\* C5: a playback that runs to its end undisturbed signals completion exactly
\* once and only after the hold. An export with no encoder failure has stopped
\* nothing and resolved nothing while it draws frames, calls recorder.stop() once
\* and only at an elapsed time beyond totalDuration + endBuffer, and resolves once.
\* A preview playback calls onAnimationComplete not at all while it plays and
\* exactly once when over, no sooner than the end of the sequence plus the hold
\* (2000 ms in the frame-driven preview, one step plus 1000 ms in the other).
C5_CompletesOnceAfterHold ==
    /\ (mode = "export" /\ encoderFailure = "") =>
         /\ pc # "uncaught"
         /\ pc \in {"load", "start", "awaitStart", "frames"} =>
              obs.recorderStops = 0 /\ obs.resolves = 0 /\ promise = "pending"
         /\ pc = "stopping" =>
              /\ obs.recorderStops = 1 /\ obs.resolves = 0 /\ promise = "pending"
              /\ elapsed > totalDuration + endBuffer
         /\ pc = "done" =>
              /\ obs.recorderStops = 1 /\ obs.resolves = 1 /\ promise = "resolved"
              /\ elapsed > totalDuration + endBuffer
    /\ (mode = "legacy" /\ obs.clean /\ obs.plays > 0) =>
         /\ isPlaying => obs.completions = 0
         /\ ~isPlaying => obs.completions = 1 /\ obs.completedAfterHold
    /\ (mode = "preview" /\ obs.clean /\ obs.plays > 0) =>
         /\ isPlaying => obs.completions = 0
         /\ ~isPlaying => obs.completions = 1 /\ obs.completedAfterHold

\* An export of a non-empty table is done: one recorder.stop(), one resolve.
C5_ExportDone ==
    /\ mode = "export" /\ encoderFailure = "" /\ totalSteps > 0
    /\ pc = "done" /\ obs.recorderStops = 1 /\ obs.resolves = 1

\* C6: in an export with no encoder failure every value passed to onProgress is
\* min(elapsed / totalDuration, 1) and lies in [0, 1], the values never decrease,
\* and by the time recorder.stop() is called some frame at or after totalDuration
\* has reported exactly 1.
C6_ProgressReachesOne ==
    (mode = "export" /\ encoderFailure = "" /\ totalSteps > 0) =>
        /\ obs.progressInRange
        /\ obs.progressMonotone
        /\ pc \in {"stopping", "done"} => obs.sawOne

\* C7: once the encoder has failed (the MediaRecorder constructor or start()
\* threw, or the recorder reported an error) the promise is rejected and the
\* engine is stopped: not playing, no lookahead timer armed, no node alive.
C7_EncoderFailureRejects ==
    (mode = "export" /\ encoderFailure # "") =>
        /\ promise = "rejected"
        /\ ~audio.isPlaying /\ audio.pending = {} /\ audio.nodes = 0

\* C8: with an empty table (totalSteps = 0) an export with no encoder failure
\* divides nothing by zero, reports only progress values in [0, 1], calls
\* triggerTransition never, does not throw and can only end done; the previews
\* call triggerTransition never and a playback left undisturbed completes once.
C8_EmptyDatasetHarmless ==
    totalSteps = 0 =>
        /\ (mode = "export" /\ encoderFailure = "") =>
             /\ progress.kind \in {"none", "num"}
             /\ progress.kind = "num" => InUnitInterval(progress)
             /\ obs.transitions = 0
             /\ pc # "uncaught"
        /\ mode \in {"legacy", "preview"} =>
             /\ obs.transitions = 0
             /\ (obs.clean /\ obs.plays > 0 /\ ~isPlaying) => obs.completions = 1

\* C9: as long as stop() is the last method that ran on the engine, the engine
\* holds no node, no lookahead timer (neither a handle nor an armed timeout), no
\* narration source, and is not playing; a further stop() leaves it as it is.
C9_StopReleasesEverything ==
    lastCall \in {"stop", "stop again"} =>
        /\ audio.nodes = 0
        /\ audio.timerID = 0 /\ audio.pending = {}
        /\ ~audio.voiceSource
        /\ ~audio.isPlaying
        /\ StopAudio(audio) = audio

\* stop() was called twice in a row on an engine that start() had been called on.
C9_StoppedTwice ==
    /\ mode = "audio" /\ lastCall = "stop again"
    /\ audio.stopped /\ audio.nextNoteTime > 0

\* C10: at every moment at most one lookahead timeout is armed, and a start()
\* called on an engine that is playing changes neither nextNoteTime nor the armed
\* timeouts nor the nodes.
C10_StartIdempotentWhileRunning ==
    /\ [](Cardinality(audio.pending) <= 1)
    /\ [][(CallStart /\ audio.isPlaying) =>
            /\ audio'.nextNoteTime = audio.nextNoteTime
            /\ audio'.pending = audio.pending
            /\ audio'.timerID = audio.timerID
            /\ audio'.nodes = audio.nodes]_vars

\* start() was just called on a playing engine whose clock has moved on since
\* the first start(): one timeout is armed and nextNoteTime was not recomputed.
C10_Restarted ==
    /\ mode = "audio" /\ lastCall = "restart" /\ audio.isPlaying
    /\ Cardinality(audio.pending) = 1
    /\ audio.currentTime > 0

\* C11: in the application (previews and exports) no engine instance has
\* start(), playSpeech() or triggerTransition() invoked on it after its stop().
C11_EnginesAreSingleUse ==
    mode # "audio" => ~audio.reused

\* A preview playback is in its hold: the frame loop or the interval has ended
\* and the playback's end-of-sequence timeout is pending.
Holding ==
    isPlaying /\ ((mode = "legacy" /\ ~raf) \/ (mode = "preview" /\ interval = -1))

\* C12: once isPlaying is false nothing a playback scheduled is still pending
\* (no frame callback, no interval, no end-of-sequence timeout), a playback
\* begins at step 0, and the only end-of-sequence timeout pending during a
\* playback is the one that playback set when it entered its hold, so no
\* completion of an earlier playback can end it.
C12_StopCancelsEverything ==
    mode \in {"legacy", "preview"} =>
        /\ ~isPlaying => (~raf /\ interval = -1 /\ timeouts = <<>>)
        /\ (isPlaying /\ elapsed = 0) => (currentIndex = 0 /\ currentStep = 0)
        /\ isPlaying => Len(timeouts) = (IF Holding THEN 1 ELSE 0)

\* C13: when stop() ran while a start() was awaiting ctx.resume(), and no method
\* was invoked on the engine since, then once that start() has continued the
\* engine is still not playing, has scheduled no note and has armed no timer.
C13_StopCancelsPendingStart ==
    (lastCall = "resumed" /\ audio.stopped /\ ~audio.reused) =>
        (~audio.isPlaying /\ audio.pending = {} /\ audio.nodes = 0)

C15_OneNarrationSource ==
    /\ audio.voices \in {0, 1}
    /\ audio.voiceSource <=> audio.voices = 1
    /\ PlaySpeech(audio, "valid").voices = 1
    /\ PlaySpeech(audio, "") = audio
    /\ (mode # "audio" /\ voicePcm = "") => audio.voices = 0

\* playSpeech() was called while a narration was active, and one source plays.
C15_NarrationReplaced ==
    /\ mode = "audio" /\ lastCall = "replaceSpeech"
    /\ audio.voiceSource /\ audio.voices = 1

\* C16: playSpeech() with a payload that cannot be decoded returns normally and
\* leaves isPlaying, the pending lookahead timer, nextNoteTime and the music nodes
\* of the engine as they were.
C16_MalformedSpeechIsHarmless ==
    LET b == PlaySpeech(audio, "malformed")
    IN /\ b.isPlaying = audio.isPlaying
       /\ b.pending = audio.pending
       /\ b.timerID = audio.timerID
       /\ b.nextNoteTime = audio.nextNoteTime
       /\ b.nodes = audio.nodes
       /\ (mode = "export" /\ voicePcm = "malformed" /\ encoderFailure = "")
              => promise # "rejected" /\ pc # "uncaught"

\* An export handed a malformed payload draws frames with the music scheduled.
C16_MalformedExportRuns ==
    /\ mode = "export" /\ voicePcm = "malformed"
    /\ lastCall = "playSpeech" /\ audio.isPlaying /\ audio.pending # {}
    /\ pc = "frames" /\ promise = "pending"

\* C17: in a video export whose background image or logo fails to load, the
\* promise is never rejected and the executor never dies; every frame drawn
\* carries the procedural background of the theme (the gradient of COSMIC, the
\* grid of NEON, the flat fill otherwise), respectively no logo; and once frames
\* are drawn the export reaches its end past the hold, with the promise resolved.
C17_AssetFailureTolerated ==
    LET failed == backgroundImage = "broken" \/ logoSrc = "broken"
        drawn == painted # NothingPainted
    IN /\ []((failed /\ encoderFailure = "") => (promise # "rejected" /\ pc # "uncaught"))
       /\ []((backgroundImage = "broken" /\ drawn) =>
                painted.background = CASE theme = "COSMIC" -> "gradient"
                                       [] theme = "NEON" -> "grid"
                                       [] OTHER -> "flat")
       /\ []((logoSrc = "broken" /\ drawn) => painted.logo = "none")
       /\ []((failed /\ pc = "done") =>
                (promise = "resolved" /\ elapsed > totalDuration + endBuffer /\ drawn
                 /\ obs.stepMonotone))
       /\ (failed /\ pc = "frames" /\ encoderFailure = "")
             ~> (pc = "done" \/ encoderFailure # "")

\* An export finished although neither the background image nor the logo loaded.
C17_ExportedWithoutAssets ==
    /\ mode = "export" /\ backgroundImage = "broken" /\ logoSrc = "broken"
    /\ theme = "NEON" /\ ~bgImage /\ ~logoImage
    /\ pc = "done" /\ promise = "resolved" /\ painted.background = "grid"

\* C18: an image export whose background image fails to load has, from the end
\* of the background block on, the procedural background of its theme, the one
\* drawn when no background image is configured.
C18_ImageFallsBackToProcedural ==
    (mode = "image" /\ backgroundImage = "broken" /\ pc # "load") =>
        painted.background = ProceduralImageBackground(theme)

\* C19 (as the code has it): of the lines getLines returns, each one made of
\* more than one word is narrower than maxWidth; a line wider than maxWidth is
\* a single word; and a line ends where the next word, appended after a space,
\* would have reached maxWidth or more.
C19_GreedyWrap ==
    (mode = "wrap" /\ pc = "done") =>
        \A k \in 1..Len(lines) :
            /\ Len(Split(lines[k])) > 1 => MeasureText(lines[k]) < maxWidth
            /\ MeasureText(lines[k]) > maxWidth => Len(Split(lines[k])) = 1
            /\ k < Len(lines) =>
                 MeasureText(lines[k] \o <<" ">> \o Split(lines[k + 1])[1]) >= maxWidth

\* Several lines came back, one of them made of two words or more.
C19_WrappedText ==
    /\ mode = "wrap" /\ pc = "done" /\ Len(lines) > 1
    /\ \E k \in 1..Len(lines) : Len(Split(lines[k])) > 1

\* C19 (as stated): lines of more than one word are at most maxWidth wide, a
\* wider line is a single word, and a line ends only where the next word,
\* appended after a space, would have exceeded maxWidth.
C19_BreaksOnlyOnOverflow ==
    (mode = "wrap" /\ pc = "done") =>
        \A k \in 1..Len(lines) :
            /\ Len(Split(lines[k])) > 1 => MeasureText(lines[k]) <= maxWidth
            /\ MeasureText(lines[k]) > maxWidth => Len(Split(lines[k])) = 1
            /\ k < Len(lines) =>
                 MeasureText(lines[k] \o <<" ">> \o Split(lines[k + 1])[1]) > maxWidth

\* C20: the lines getLines returns, joined with single spaces, are the text it
\* was given, and there is at least one line.
C20_WrapRoundTrip ==
    (mode = "wrap" /\ pc = "done") => (Len(lines) >= 1 /\ Join(lines) = text)

\* A text with two spaces in a row was wrapped into several lines.
C20_ConsecutiveSpacesWrapped ==
    /\ mode = "wrap" /\ pc = "done" /\ Len(lines) > 1
    /\ \E i \in 1..(Len(text) - 1) : text[i] = " " /\ text[i + 1] = " "

\* C21: in the layout computation of renderTableImage every iteration of the
\* font-shrink loop counts one attempt and there are never more than 15; at every
\* point the body font size is at least 25, the header font size at least 25
\* and the row padding at least 20 pixels.
C21_ShrinkLoopBounded ==
    /\ [](/\ solver.attempts <= 15
          /\ solver.fontSize >= 25
          /\ solver.headerFontSize >= 25
          /\ solver.rowPadding >= 20 * RoundingGrid)
    /\ [][ShrinkStep => solver'.attempts = solver.attempts + 1]_vars

\* A table too tall at every setting: the loop ran down to the floor.
C21_ShrunkToFloor ==
    /\ mode = "layout" /\ solver.phase = "done"
    /\ solver.fontSize = 25 /\ solver.headerFontSize = 25
    /\ solver.rowPadding = 20 * RoundingGrid
    /\ solver.totalHeight > availableTableHeight * RoundingGrid

\* The table fits the available height at some setting of the shrink schedule:
\* body font 55 - 3k, header font max(25, 45 - 2k), padding max(20, 40 - 4k).
FitsOnSchedule ==
    \E k \in 0..10 :
        CalculateLayout(55 - 3 * k, Max(25, 45 - 2 * k), Max(20, 40 - 4 * k) * RoundingGrid)
            <= availableTableHeight * RoundingGrid

C23_HandedTablesWellFormed ==
    (mode = "editor" /\ consumer # "none") =>
        /\ data.columns >= 1
        /\ \A r \in DOMAIN data.data : data.data[r] = data.columns

\* C24: from elapsed = totalSteps * durationPerItem until the export stops, every
\* frame drawn shows the last step unchanged: the step index is totalSteps - 1 and
\* the attribute block is drawn at full opacity.
C24_HoldShowsLastStepUnfaded ==
    (mode = "export" /\ rows > 0 /\ numCols > 1 /\ shown.at >= totalDuration)
        => /\ shown.step = totalSteps - 1
           /\ IsOne(Opacity(StepTime(shown.at, stepDuration), stepDuration))

\* C25: with t the time since the step began and D = durationPerItem in ms, for
\* D >= 600 the attribute opacity is t/300 when t < 300, (D - t)/300 when
\* t > D - 300 and exactly 1 otherwise; for every D > 0 and every t in [0, D) the
\* opacity lies in [0, 1].
C25_OpacityEnvelope ==
    fade.opacity # NoValue =>
        LET t == fade.stepTime
            D == fade.durationPerItem
            o == fade.opacity
        IN /\ InUnitInterval(o)
           /\ D >= 600 =>
                /\ t < 300 => o.n * 300 = t * o.d
                /\ t > D - 300 => o.n * 300 = (D - t) * o.d
                /\ (t >= 300 /\ t <= D - 300) => IsOne(o)

\* A frame drawn in the fade-out of a step long enough for a plateau.
C25_FadingOut ==
    /\ fade.opacity # NoValue
    /\ fade.durationPerItem >= 600
    /\ fade.stepTime > fade.durationPerItem - 300
    /\ ~IsOne(fade.opacity)

\* C26: the entrance motion of the subject block is started exactly when the
\* displayed row index changes (and at playback start): no frame of the hold of an
\* export draws the subject inside its entrance, and a render of the preview that
\* replays the entrance shows another row than the render before it.
C26_EntranceOnlyOnRowChange ==
    /\ [](  (mode = "export" /\ rows > 0 /\ shown.at >= totalDuration)
            => ~SubjectEntrance(layout, shown.step, numCols,
                                StepTime(shown.at, stepDuration)))
    /\ [][  (/\ mode = "legacy" /\ isPlaying /\ isPlaying'
             /\ LegacyKey(currentIndex', numCols) # LegacyKey(currentIndex, numCols))
            => shown'.rowIdx # shown.rowIdx ]_vars

\* The surface of the session outputs an attribute header and value.
AttributeDrawn ==
    CASE mode = "export" -> ExportAttributeDrawn(layout, numCols)
      [] mode = "legacy" -> LegacyAttributeDrawn(layout, numCols)
      [] OTHER -> PreviewAttributeDrawn(layout, numCols)

\* C27: when columns.length = 1, numAttributes = 1, totalSteps is the number of
\* rows, and no frame of the export and no render of the live preview draws an
\* attribute header or value, in each of the five layouts.
C27_SingleColumnDrawsNoAttribute ==
    numCols = 1 =>
        /\ numAttributes = 1
        /\ totalSteps = rows
        /\ shown.at >= 0 => ~AttributeDrawn

\* C30: at the same elapsed time the progress bar of the live preview shows the
\* fill fraction the progress bar of the export shows, min(elapsed / totalDuration, 1).
C30_SameFillAtSameElapsed ==
    (mode = "legacy" /\ isPlaying /\ rows > 0)
        => LET live == LegacyBarFill(currentIndex, totalSteps)
               export == ExportBarFill(elapsed, totalDuration)
           IN /\ live.kind = "num" /\ export.kind = "num"
              /\ live.n * export.d = export.n * live.d

\* C29: while the engine is playing, successive ambient notes start at least 2.0 s
\* and at most 4.5 s apart; a note is scheduled only when its start time is less
\* than 1 s ahead of the audio clock; after every run of the lookahead scheduler
\* (the first, made by start(), and each one made by its timer) nextNoteTime is at
\* least currentTime + 1 s; and a run arms the timer again if and only if
\* isPlaying is true.
C29_AmbientScheduling ==
    /\ [](\A i \in 1..(Len(audio.noteTimes) - 1) :
            /\ audio.noteTimes[i + 1] - audio.noteTimes[i] >= 2000
            /\ audio.noteTimes[i + 1] - audio.noteTimes[i] <= 4500)
    /\ [][\A i \in (Len(audio.noteTimes) + 1)..Len(audio'.noteTimes) :
            audio'.noteTimes[i] < audio'.currentTime + 1000]_vars
    /\ [][(~audio.isPlaying /\ audio'.isPlaying)
            => /\ audio'.nextNoteTime >= audio'.currentTime + 1000
               /\ audio'.timerID \in audio'.pending]_vars
    /\ [][SchedulerTick
            => /\ audio'.nextNoteTime >= audio'.currentTime + 1000
               /\ (Cardinality(audio'.pending) = Cardinality(audio.pending))
                    <=> audio'.isPlaying]_vars

\* Two notes of one playback scheduled with the longest gap between them.
C29_TwoNotesFarApart ==
    /\ mode = "ambient" /\ audio.isPlaying
    /\ Len(audio.noteTimes) >= 2
    /\ audio.noteTimes[2] - audio.noteTimes[1] = 4400

\* C31: renderVideo places the subject and attribute blocks differently for each
\* of the five Layout values: the anchor points of a frame drawn under one
\* layout are those of no other layout.
C31_LayoutsPlaceDifferently ==
    (mode = "export" /\ painted # NothingPainted)
        => \A l \in Layouts \ {layout} : painted.anchors # ExportAnchors(l)

\* C32: the optional overlays follow the switches in the live preview, the video
\* export and the image export alike: the app-name label is drawn if and only if
\* config.showAppName, the AI label if and only if config.showAiWatermark, and,
\* where time passes, the progress bar if and only if config.showProgressBar.
C32_OverlaysFollowFlags ==
    /\ (mode = "legacy" /\ shown.at >= 0) => LegacyOverlays(flags) =
            [appName |-> flags.showAppName, aiWatermark |-> flags.showAiWatermark,
             progressBar |-> flags.showProgressBar]
    /\ (mode = "export" /\ painted # NothingPainted) =>
            /\ painted.overlays.appName = flags.showAppName
            /\ painted.overlays.aiWatermark = flags.showAiWatermark
            /\ painted.overlays.progressBar = flags.showProgressBar
    /\ (mode = "image" /\ pc = "done") =>
            /\ painted.overlays.appName = flags.showAppName
            /\ painted.overlays.aiWatermark = flags.showAiWatermark

\* C33: the delay between the end of the last step and the completion signal is
\* a fixed end buffer. In a playback that has just finished its last step, with
\* the completion timeout armed and nothing else pending, the armed delay is the
\* one that any other durationPerItem would have given: holdDelay in
\* components/TablePreview.tsx, the same value for every duration in
\* unnamed/part_000.
C33_EndBufferIsConstant ==
    /\ (mode = "legacy" /\ isPlaying /\ ~raf /\ Len(timeouts) = 1) =>
            timeouts[1] = holdDelay
    /\ (mode = "preview" /\ isPlaying /\ interval = -1 /\ Len(timeouts) = 1) =>
            \A d \in Durations : timeouts[1] = PreviewEndDelay(StepDuration(d))

\* C34: in every state of the application isExporting and isPlaying are not both
\* true: an export that starts stops the preview, and the preview is not started
\* while an export is in progress.
C34_NeverPlayingWhileExporting ==
    mode = "app" => ~(isExporting /\ isPlaying)

\* C35: at most one capture is awaited at any time, also when an export handler
\* is called again before the component has rendered again, and isExporting is
\* true for as long as a capture is awaited.
C35_OneExportAtATime ==
    mode = "app" => /\ captures <= 1
                    /\ captures > 0 => isExporting

\* C36: whenever voicePcm is not null it was generated from the summary of the
\* current data.
C36_VoiceMatchesSummary ==
    (mode = "app" /\ voicePcmOf # NoVoice) => voicePcmOf = summary

\* C37: handleJsonChange called with a text that is not valid JSON, or whose
\* value lacks a columns array or a data array, leaves data as it is, sets
\* isValidJson to false and sets an error message; called with any other text it
\* replaces data by the parsed value, sets isValidJson to true and clears the
\* error. The editor holds the text of the call in every case.
C37_JsonChangeValidates ==
    [][HandleJsonChange =>
        IF \/ jsonString'.kind # "value"
           \/ jsonString'.columns # "array"
           \/ jsonString'.data # "array"
        THEN /\ data' = data /\ summary' = summary
             /\ ~isValidJson' /\ jsonError' # NoError
        ELSE /\ data' = jsonString'.table /\ summary' = jsonString'.summary
             /\ isValidJson' /\ jsonError' = NoError]_vars

\* A text with a columns array and no data array was typed and rejected.
C37_TextWithoutDataRejected ==
    /\ mode = "app" /\ ~isValidJson
    /\ jsonString.kind = "value" /\ jsonString.columns = "array"
    /\ jsonString.data # "array"
    /\ jsonError = "Missing 'columns' or 'data' array."

====
